---- MODULE Spec2Model ----
(***************************************************************************)
(* Model of the in-memory OAuth 2.0 provider TwentyCRMOAuthProvider        *)
(* (src/oauth/provider.js).  Every provider method is one atomic action:   *)
(* the methods contain no await between their reads and writes, except     *)
(* handleAuthorizeSubmit, which awaits the CRM key validation and is       *)
(* therefore split at that await.                                          *)
(*                                                                         *)
(* Date.now() is a millisecond count too large for TLC's integers, so the  *)
(* clock is kept as the pair [s, ms] with Date.now() = 1000 * s + ms and   *)
(* 0 <= ms < 1000; Math.floor(Date.now() / 1000) is then the field s.      *)
(*                                                                         *)
(* ret holds what the last call returned or threw until its caller has     *)
(* taken it (Return); the history variables record which submission made   *)
(* a code, which code a token descends from, how often a code has been     *)
(* exchanged and which tokens their owners have revoked.                   *)
(***************************************************************************)
EXTENDS Integers, Sequences, FiniteSets, TLC

VARIABLES
    clients,        \* this._clients        clientId -> client record
    codes,          \* this._codes          authCode -> code record
    tokens,         \* this._tokens         accessToken -> token record
    refreshTokens,  \* this._refreshTokens  refreshToken -> refresh record
    now,            \* Date.now() as [s, ms]
    clientCount,    \* number of client ids drawn by generateId() so far
    codeCount,      \* number of authorization codes drawn by generateId() so far
    tokenCount,     \* number of generateToken() results drawn so far
    ticks,          \* number of clock advances so far
    budget,         \* the bounds of this run
    submits,        \* handleAuthorizeSubmit calls suspended at the await
    ret,            \* outcome of the call that has just returned
    submittedKey,   \* history: code -> api_key of the submission that made it
    origin,         \* history: token -> code it descends from
    exchanges,      \* history: code -> number of successful exchanges
    revoked,        \* history: tokens their owner has revoked without a type hint
    text,           \* authorization page: a caller-supplied text
    options,        \* authorization page: the options of generateAuthorizePage
    output,         \* authorization page: what the function applied returned
    env,            \* desktop proxy: process.env
    pc,             \* desktop proxy: where main() stands
    exitCode,       \* desktop proxy: the code given to process.exit
    log,            \* desktop proxy: the lines written by log.info / log.error
    remoteClient,   \* desktop proxy: this.remoteClient
    connectAttempts,\* desktop proxy: number of client.connect calls made
    discoveries,    \* desktop proxy: number of client.listTools calls made
    remoteCatalog,  \* desktop proxy: what the remote server lists now
    remoteTools,    \* desktop proxy: the remoteTools of initializeServer
    stdioConnected, \* desktop proxy: server.connect(transport) has resolved
    requests,       \* desktop proxy: number of local requests received
    pending,        \* desktop proxy: tool calls awaiting the remote server
    forwarded,      \* desktop proxy: the calls sent to the remote server
    answer,         \* desktop proxy: the last answer to a local request
    fieldType,      \* adapter: the composite field type being normalized
    value,          \* adapter: the value given to the normalization function
    normalized,     \* adapter: the function applied once
    renormalized,   \* adapter: the function applied to its own result
    applied,        \* adapter: how often the function has been applied
    tool,           \* adapter: the tool of the call being handled
    callArgs,       \* adapter: the arguments of that call
    payload,        \* adapter: the payload being prepared for the CRM
    stage,          \* adapter: the step of the write path reached
    transmitted     \* adapter: the payloads sent to the CRM

pageVars == <<text, options, output>>
proxyVars == <<env, pc, exitCode, log, remoteClient, connectAttempts,
               discoveries, remoteCatalog, remoteTools, stdioConnected,
               requests, pending, forwarded, answer>>
adapterVars == <<fieldType, value, normalized, renormalized, applied, tool,
                 callArgs, payload, stage, transmitted>>
aside == <<pageVars, proxyVars, adapterVars>>
vars == <<clients, codes, tokens, refreshTokens, now, clientCount, codeCount,
          tokenCount, ticks, budget, submits, ret, submittedKey, origin, exchanges, revoked,
          aside>>
provider == <<clients, codes, tokens, refreshTokens, now, clientCount,
              codeCount, tokenCount, ticks, budget, submits, ret, submittedKey,
              origin, exchanges, revoked>>

stores == <<clients, codes, tokens, refreshTokens>>
history == <<submittedKey, origin, exchanges, revoked>>

(***************************************************************************)
(* Bounds of the model.                                                    *)
(* A run explores one of three budgets: two clients and two clock         *)
(* advances around one authorization code; two authorization codes and    *)
(* the tokens of both for one client with the clock standing still; or    *)
(* two form submissions in flight at once, among them one whose           *)
(* redirect_uri is not a URL, with one exchange and one clock advance.     *)
(***************************************************************************)
TimedMaxClients == 2
TimedMaxCodes == 1
TimedMaxTokens == 3
TimedMaxTicks == 2
LineageMaxClients == 1
LineageMaxCodes == 2
LineageMaxTokens == 5
LineageMaxTicks == 0
MaxInFlight == 1
ConcurrentMaxClients == 1
ConcurrentMaxCodes == 2
ConcurrentMaxTokens == 2
ConcurrentMaxTicks == 1
ConcurrentMaxInFlight == 2
TimedBudget ==
    [clients |-> TimedMaxClients, codes |-> TimedMaxCodes,
     tokens |-> TimedMaxTokens, ticks |-> TimedMaxTicks,
     inflight |-> MaxInFlight, unparsable |-> FALSE]
LineageBudget ==
    [clients |-> LineageMaxClients, codes |-> LineageMaxCodes,
     tokens |-> LineageMaxTokens, ticks |-> LineageMaxTicks,
     inflight |-> MaxInFlight, unparsable |-> FALSE]
ConcurrentBudget ==
    [clients |-> ConcurrentMaxClients, codes |-> ConcurrentMaxCodes,
     tokens |-> ConcurrentMaxTokens, ticks |-> ConcurrentMaxTicks,
     inflight |-> ConcurrentMaxInFlight, unparsable |-> TRUE]
Budgets == {TimedBudget, LineageBudget, ConcurrentBudget}

(***************************************************************************)
(* Token configuration set by the constructor.                             *)
(***************************************************************************)
accessTokenTTL == 3600
authCodeTTL == 300
refreshTokenTTL == 30 * 24 * 3600

(***************************************************************************)
(* Inputs.                                                                 *)
(***************************************************************************)
Undefined == "undefined"
Null == "null"
NetworkError == 0

ClientNames == {"claude"}
Resources == {Undefined}
Hints == {Undefined, "access_token", "refresh_token", "other"}
ScopeRequests ==
    {[given |-> FALSE, scopes |-> <<>>], [given |-> TRUE, scopes |-> <<>>],
     [given |-> TRUE, scopes |-> <<"mcp:tools">>],
     [given |-> TRUE, scopes |-> <<"admin">>],
     [given |-> TRUE, scopes |-> <<"admin", "mcp:tools">>]}
Responses == {200, 204, 401, NetworkError}
TickSteps == {[s |-> 0, ms |-> 500], [s |-> authCodeTTL, ms |-> 0],
              [s |-> accessTokenTTL, ms |-> 0], [s |-> refreshTokenTTL, ms |-> 0]}
AuthorizeParams ==
    {[scopesGiven |-> FALSE, scopes |-> << >>, state |-> Undefined,
      redirectUri |-> "https://app/cb", codeChallenge |-> "ch-1"],
     [scopesGiven |-> TRUE, scopes |-> <<"mcp:tools">>, state |-> "st",
      redirectUri |-> "https://app/cb", codeChallenge |-> "ch-2"]}
FormBodies ==
    {[api_key |-> "", state |-> "st", redirect_uri |-> "https://app/cb", code_challenge |-> "ch-1"],
     [api_key |-> "key-A", state |-> Undefined, redirect_uri |-> "", code_challenge |-> Undefined],
     [api_key |-> Undefined, state |-> "st", redirect_uri |-> Undefined, code_challenge |-> "ch-1"],
     [api_key |-> "key-A", state |-> "st", redirect_uri |-> "https://app/cb", code_challenge |-> "ch-1"],
     [api_key |-> "key-B", state |-> "", redirect_uri |-> "https://app/cb", code_challenge |-> "ch-2"]}
UnparsableFormBodies ==
    {[api_key |-> "key-A", state |-> "st", redirect_uri |-> "app/cb", code_challenge |-> "ch-1"]}
ParsableRedirects == {"https://app/cb"}
Bodies == IF budget.unparsable THEN FormBodies \cup UnparsableFormBodies
          ELSE FormBodies

Codes == 1..budget.codes
Tokens == 1..budget.tokens
NoCall == [op |-> "none"]
Idle == ret = NoCall

(***************************************************************************)
(* Map operations (Map.prototype.set / delete) and the clock.              *)
(***************************************************************************)
EmptyMap == << >>
MapSet(m, k, v) == [x \in (DOMAIN m) \cup {k} |-> IF x = k THEN v ELSE m[x]]
MapDelete(m, k) == [x \in (DOMAIN m) \ {k} |-> m[x]]

MsAfter(a, b) == a.s > b.s \/ (a.s = b.s /\ a.ms > b.ms)
MsPlus(a, d) ==
    [s |-> a.s + d.s + ((a.ms + d.ms) \div 1000), ms |-> (a.ms + d.ms) % 1000]
nowSeconds == now.s

Truthy(v) == v # "" /\ v # Undefined /\ v # Null

(***************************************************************************)
(* generateId() and generateToken() return random byte strings; a value    *)
(* is modelled by the number of the draw that produced it, so every draw   *)
(* is a value never seen before.                                           *)
(***************************************************************************)
\* Faulty variant: every draw gives the same value.
generateIdRepeated(drawn) == 1
generateId(drawn) == drawn + 1
generateToken(k) == tokenCount + k

(***************************************************************************)
(* The provider after its constructor.                                     *)
(***************************************************************************)
ProviderStart ==
    /\ clients = EmptyMap
    /\ codes = EmptyMap
    /\ tokens = EmptyMap
    /\ refreshTokens = EmptyMap
    /\ now = [s |-> 1700000000, ms |-> 0]
    /\ clientCount = 0
    /\ codeCount = 0
    /\ tokenCount = 0
    /\ ticks = 0
    /\ submits = << >>
    /\ ret = NoCall
    /\ submittedKey = EmptyMap
    /\ origin = EmptyMap
    /\ exchanges = [c \in Codes |-> 0]
    /\ revoked = {}

(***************************************************************************)
(* No page function has been applied.                                      *)
(***************************************************************************)
NoOutput == [kind |-> "none", value |-> << >>]
PageAtRest ==
    /\ text = << >>
    /\ options = << >>
    /\ output = NoOutput

(***************************************************************************)
(* The desktop proxy before its process is started.                        *)
(***************************************************************************)
NotExited == -1
NoClient == 0
NoResponse == [op |-> "none"]
ProxyNotStarted ==
    /\ pc = "start"
    /\ exitCode = NotExited
    /\ log = << >>
    /\ remoteClient = NoClient
    /\ connectAttempts = 0
    /\ discoveries = 0
    /\ remoteTools = << >>
    /\ stdioConnected = FALSE
    /\ requests = 0
    /\ pending = << >>
    /\ forwarded = << >>
    /\ answer = NoResponse
ProxyAtRest ==
    /\ env = [REMOTE_MCP_URL |-> Undefined, TWENTY_API_KEY |-> Undefined]
    /\ remoteCatalog = [hasTools |-> FALSE, tools |-> << >>]
    /\ ProxyNotStarted

(***************************************************************************)
(* JavaScript values of the adapter's payloads: null, a string, an array   *)
(* of values, or an object, which is a function from its keys to values.   *)
(***************************************************************************)
NoKeys == [k \in {} |-> 0]
Nul == [kind |-> "null", s |-> "", items |-> << >>, fields |-> NoKeys]
Str(s) == [kind |-> "string", s |-> s, items |-> << >>, fields |-> NoKeys]
Arr(items) == [kind |-> "array", s |-> "", items |-> items, fields |-> NoKeys]
Obj(fields) == [kind |-> "object", s |-> "", items |-> << >>, fields |-> fields]

(***************************************************************************)
(* The adapter with no value to normalize and no call to handle.           *)
(***************************************************************************)
NormalizeAtRest ==
    /\ fieldType = "none"
    /\ value = Nul
    /\ normalized = Nul
    /\ renormalized = Nul
    /\ applied = 0
PersonAtRest ==
    /\ tool = "none"
    /\ callArgs = NoKeys
    /\ payload = NoKeys
    /\ stage = "idle"
    /\ transmitted = << >>
AdapterAtRest == NormalizeAtRest /\ PersonAtRest

Init ==
    /\ budget \in Budgets
    /\ ProviderStart
    /\ PageAtRest
    /\ ProxyAtRest
    /\ AdapterAtRest

(***************************************************************************)
(* clientsStore.registerClient(clientMetadata)                             *)
(***************************************************************************)
registerClient(name) ==
    /\ Idle
    /\ clientCount < budget.clients
    /\ LET clientId == generateId(clientCount)
           client == [client_name |-> name,
                      client_id |-> clientId,
                      client_secret |-> Cardinality(DOMAIN clients) + 1,
                      client_id_issued_at |-> nowSeconds]
       IN /\ clients' = MapSet(clients, clientId, client)
          /\ ret' = [op |-> "registerClient", client |-> client]
    /\ clientCount' = clientCount + 1
    /\ UNCHANGED <<codes, tokens, refreshTokens, now, codeCount, tokenCount,
                   ticks, submits, history, budget, aside>>

(***************************************************************************)
(* clientsStore.getClient(clientId): a plain lookup.                       *)
(***************************************************************************)
getClient(clientId) ==
    /\ Idle
    /\ ret' = IF clientId \in DOMAIN clients
              THEN [op |-> "getClient", clientId |-> clientId,
                    found |-> TRUE, client |-> clients[clientId]]
              ELSE [op |-> "getClient", clientId |-> clientId,
                    found |-> FALSE]
    /\ UNCHANGED <<stores, now, clientCount, codeCount, tokenCount, ticks,
                   submits, history, budget, aside>>

(***************************************************************************)
(* a || b                                                                  *)
(***************************************************************************)
Or(a, b) == IF Truthy(a) THEN a ELSE b

(***************************************************************************)
(* authorize(client, params, res): sends the form.  A page is recorded as  *)
(* the options handed to generateAuthorizePage.                            *)
(***************************************************************************)
authorize(client, params) ==
    /\ Idle
    /\ client \in DOMAIN clients
    /\ ret' = [op |-> "authorize", status |-> 200, sent |-> "page",
               pageOptions |->
                   [clientName |-> Or(clients[client].client_name,
                                      ToString(clients[client].client_id)),
                    scopes |-> IF params.scopesGiven THEN params.scopes
                               ELSE << >>,
                    state |-> Or(params.state, ""),
                    redirectUri |-> params.redirectUri,
                    codeChallenge |-> params.codeChallenge,
                    error |-> Undefined]]
    /\ UNCHANGED <<stores, now, clientCount, codeCount, tokenCount, ticks,
                   submits, history, budget, aside>>

(***************************************************************************)
(* validateTwentyApiKey: response.ok, or false when fetch throws.          *)
(***************************************************************************)
validateTwentyApiKey(response) ==
    IF response = NetworkError THEN FALSE
    ELSE response >= 200 /\ response <= 299

(***************************************************************************)
(* !api_key || !redirect_uri                                               *)
(***************************************************************************)
ApiKeyMissing(api_key, redirect_uri) == ~Truthy(api_key)
RequiredFieldMissing(api_key, redirect_uri) ==
    ~Truthy(api_key) \/ ~Truthy(redirect_uri)

(***************************************************************************)
(* The form sent back with status 400.                                     *)
(***************************************************************************)
ErrorPage(body, redirectUri, error) ==
    [clientName |-> "Unknown",
     scopes |-> << >>,
     state |-> Or(body.state, ""),
     redirectUri |-> redirectUri,
     codeChallenge |-> Or(body.code_challenge, ""),
     error |-> error]

(***************************************************************************)
(* handleAuthorizeSubmit(req, res), up to the await of the validation.     *)
(***************************************************************************)
handleAuthorizeSubmitBegin(body) ==
    /\ Idle
    /\ IF RequiredFieldMissing(body.api_key, body.redirect_uri)
       THEN /\ ret' = [op |-> "handleAuthorizeSubmit", status |-> 400,
                       sent |-> "page", body |-> body, validated |-> FALSE,
                       pageOptions |->
                           ErrorPage(body, Or(body.redirect_uri, ""),
                                     "API key is required")]
            /\ UNCHANGED <<stores, now, clientCount, codeCount, tokenCount,
                           ticks, submits, history, budget, aside>>
       ELSE /\ Len(submits) < budget.inflight
            /\ submits' = Append(submits, body)
            /\ ret' = NoCall
            /\ UNCHANGED <<stores, now, clientCount, codeCount, tokenCount,
                           ticks, history, budget, aside>>

RemoveAt(q, i) == [j \in 1..(Len(q) - 1) |-> IF j < i THEN q[j] ELSE q[j + 1]]

(***************************************************************************)
(* Date.now() + (this.authCodeTTL * 1000)                                  *)
(***************************************************************************)
CodeExpiresAtAccessTTL == MsPlus(now, [s |-> accessTokenTTL, ms |-> 0])
CodeExpiresAt == MsPlus(now, [s |-> authCodeTTL, ms |-> 0])

(***************************************************************************)
(* handleAuthorizeSubmit(req, res), from the await to the response.        *)
(***************************************************************************)
handleAuthorizeSubmitFinish(i, response) ==
    /\ Idle
    /\ i \in 1..Len(submits)
    /\ LET body == submits[i]
           isValid == validateTwentyApiKey(response)
       IN IF ~isValid
          THEN /\ ret' = [op |-> "handleAuthorizeSubmit", status |-> 400,
                          sent |-> "page", body |-> body,
                          validated |-> TRUE, response |-> response,
                          valid |-> isValid,
                          pageOptions |->
                              ErrorPage(body, body.redirect_uri,
                                  "Invalid API key. Please check your Twenty CRM API key and try again.")]
               /\ UNCHANGED <<stores, codeCount, history>>
          ELSE /\ codeCount < budget.codes
               /\ LET code == generateId(codeCount)
                      expiresAt == CodeExpiresAt
                  IN /\ codes' = MapSet(codes, code,
                                   [twentyApiKey |-> body.api_key,
                                    codeChallenge |-> body.code_challenge,
                                    redirectUri |-> body.redirect_uri,
                                    state |-> body.state,
                                    scopes |-> <<"mcp:tools">>,
                                    expiresAt |-> expiresAt])
                     /\ submittedKey' = MapSet(submittedKey, code, body.api_key)
                     /\ ret' = IF body.redirect_uri \notin ParsableRedirects
                               THEN [op |-> "handleAuthorizeSubmit",
                                     status |-> 500, sent |-> "threw",
                                     body |-> body, validated |-> TRUE,
                                     response |-> response, valid |-> isValid,
                                     code |-> code,
                                     error |-> "TypeError: Invalid URL"]
                               ELSE [op |-> "handleAuthorizeSubmit",
                                     status |-> 302, sent |-> "redirect",
                                     body |-> body, validated |-> TRUE,
                                     response |-> response, valid |-> isValid,
                                     code |-> code,
                                     location |->
                                         [url |-> body.redirect_uri,
                                          code |-> code,
                                          state |-> Or(body.state, Undefined)]]
               /\ codeCount' = codeCount + 1
               /\ UNCHANGED <<clients, tokens, refreshTokens, origin,
                              exchanges, revoked>>
    /\ submits' = RemoveAt(submits, i)
    /\ UNCHANGED <<now, clientCount, tokenCount, ticks, budget, aside>>

(***************************************************************************)
(* Date.now() > codeData.expiresAt                                         *)
(***************************************************************************)
\* Faulty variant: a code is taken as expired at the instant of its expiry.
CodeExpiredAtExpiry(codeData) == ~MsAfter(codeData.expiresAt, now)
CodeExpired(codeData) == MsAfter(now, codeData.expiresAt)

(***************************************************************************)
(* challengeForAuthorizationCode(client, authorizationCode)                *)
(***************************************************************************)
challengeForAuthorizationCode(client, authorizationCode) ==
    /\ Idle
    /\ IF authorizationCode \notin DOMAIN codes
       THEN /\ ret' = [op |-> "challengeForAuthorizationCode",
                       code |-> authorizationCode,
                       status |-> "Invalid authorization code"]
            /\ UNCHANGED codes
       ELSE IF CodeExpired(codes[authorizationCode])
       THEN /\ codes' = MapDelete(codes, authorizationCode)
            /\ ret' = [op |-> "challengeForAuthorizationCode",
                       code |-> authorizationCode,
                       status |-> "Authorization code expired"]
       ELSE /\ ret' = [op |-> "challengeForAuthorizationCode",
                       code |-> authorizationCode,
                       status |-> "ok",
                       value |-> codes[authorizationCode].codeChallenge]
            /\ UNCHANGED codes
    /\ UNCHANGED <<clients, tokens, refreshTokens, now, clientCount,
                   codeCount, tokenCount, ticks, submits, history, budget, aside>>

(***************************************************************************)
(* this._codes.get(authorizationCode) and the one-time-use delete.         *)
(***************************************************************************)
\* Faulty variant: reads the oldest stored code instead of the presented one.
CodeDataOldest(authorizationCode) ==
    codes[CHOOSE c \in DOMAIN codes : \A d \in DOMAIN codes : c <= d]
CodeDataFor(authorizationCode) == codes[authorizationCode]
\* Faulty variant: the exchanged code is left in the store.
ConsumeCodeKept(authorizationCode) == codes
ConsumeCode(authorizationCode) == MapDelete(codes, authorizationCode)

(***************************************************************************)
(* exchangeAuthorizationCode(client, authorizationCode, codeVerifier,      *)
(*                           redirectUri, resource)                        *)
(***************************************************************************)
exchangeAuthorizationCode(client, authorizationCode, resource) ==
    /\ Idle
    /\ IF authorizationCode \notin DOMAIN codes
       THEN /\ ret' = [op |-> "exchangeAuthorizationCode",
                       code |-> authorizationCode, client |-> client,
                       status |-> "Invalid authorization code"]
            /\ UNCHANGED <<codes, tokens, refreshTokens, tokenCount, origin,
                           exchanges>>
       ELSE IF CodeExpired(codes[authorizationCode])
       THEN /\ codes' = MapDelete(codes, authorizationCode)
            /\ ret' = [op |-> "exchangeAuthorizationCode",
                       code |-> authorizationCode, client |-> client,
                       status |-> "Authorization code expired"]
            /\ UNCHANGED <<tokens, refreshTokens, tokenCount, origin,
                           exchanges>>
       ELSE /\ tokenCount + 2 <= budget.tokens
            /\ LET codeData == CodeDataFor(authorizationCode)
                   accessToken == generateToken(1)
                   refreshToken == generateToken(2)
                   expiresAt == nowSeconds + accessTokenTTL
               IN /\ codes' = ConsumeCode(authorizationCode)
                  /\ tokens' = MapSet(tokens, accessToken,
                                 [clientId |-> client,
                                  scopes |-> codeData.scopes,
                                  expiresAt |-> expiresAt,
                                  twentyApiKey |-> codeData.twentyApiKey,
                                  resource |-> resource])
                  /\ refreshTokens' = MapSet(refreshTokens, refreshToken,
                                        [clientId |-> client,
                                         scopes |-> codeData.scopes,
                                         twentyApiKey |-> codeData.twentyApiKey,
                                         createdAt |-> nowSeconds])
                  /\ ret' = [op |-> "exchangeAuthorizationCode",
                             code |-> authorizationCode, client |-> client,
                             status |-> "ok",
                             access_token |-> accessToken,
                             expires_in |-> accessTokenTTL,
                             refresh_token |-> refreshToken,
                             scope |-> codeData.scopes]
                  /\ origin' = MapSet(MapSet(origin, accessToken, authorizationCode),
                                      refreshToken, authorizationCode)
            /\ tokenCount' = tokenCount + 2
            /\ exchanges' = [exchanges EXCEPT ![authorizationCode] = @ + 1]
    /\ UNCHANGED <<clients, now, clientCount, codeCount, ticks, submits,
                   submittedKey, revoked, budget, aside>>

(***************************************************************************)
(* The guards and the scope choice of exchangeRefreshToken.                *)
(***************************************************************************)
\* Faulty variant: the owning client is not compared with the caller.
RefreshOwnedByAnyone(refreshData, client) == TRUE
RefreshOwnedBy(refreshData, client) == refreshData.clientId = client
RefreshExpired(refreshData) ==
    nowSeconds - refreshData.createdAt > refreshTokenTTL
\* Faulty variant: the expired refresh token is left in the store.
ExpiredRefreshKept(refreshToken) == refreshTokens
ExpiredRefreshRemoved(refreshToken) == MapDelete(refreshTokens, refreshToken)
\* Faulty variant: the refresh token is rotated away by a successful exchange.
RefreshTokenRotated(refreshToken) == MapDelete(refreshTokens, refreshToken)
RefreshTokenAfterExchange(refreshToken) == refreshTokens
\* Faulty variant: the requested scopes are granted as they were asked.
effectiveScopesAsRequested(given, scopes, refreshData) ==
    IF given /\ Len(scopes) > 0 THEN scopes ELSE refreshData.scopes
effectiveScopes(given, scopes, refreshData) ==
    IF given /\ Len(scopes) > 0
    THEN SelectSeq(scopes,
                   LAMBDA sc : \E j \in 1..Len(refreshData.scopes) :
                                   refreshData.scopes[j] = sc)
    ELSE refreshData.scopes

(***************************************************************************)
(* exchangeRefreshToken(client, refreshToken, scopes, resource); the       *)
(* scopes argument is undefined when given is FALSE.                       *)
(***************************************************************************)
exchangeRefreshToken(client, refreshToken, given, scopes, resource) ==
    /\ Idle
    /\ IF refreshToken \notin DOMAIN refreshTokens
       THEN /\ ret' = [op |-> "exchangeRefreshToken", token |-> refreshToken,
                       client |-> client, status |-> "Invalid refresh token"]
            /\ UNCHANGED <<tokens, refreshTokens, tokenCount, origin>>
       ELSE IF ~RefreshOwnedBy(refreshTokens[refreshToken], client)
       THEN /\ ret' = [op |-> "exchangeRefreshToken", token |-> refreshToken,
                       client |-> client,
                       status |-> "Refresh token does not belong to this client"]
            /\ UNCHANGED <<tokens, refreshTokens, tokenCount, origin>>
       ELSE IF RefreshExpired(refreshTokens[refreshToken])
       THEN /\ refreshTokens' = ExpiredRefreshRemoved(refreshToken)
            /\ ret' = [op |-> "exchangeRefreshToken", token |-> refreshToken,
                       client |-> client, status |-> "Refresh token expired"]
            /\ UNCHANGED <<tokens, tokenCount, origin>>
       ELSE /\ tokenCount + 1 <= budget.tokens
            /\ LET refreshData == refreshTokens[refreshToken]
                   accessToken == generateToken(1)
                   expiresAt == nowSeconds + accessTokenTTL
                   effective == effectiveScopes(given, scopes, refreshData)
               IN /\ tokens' = MapSet(tokens, accessToken,
                                 [clientId |-> client,
                                  scopes |-> effective,
                                  expiresAt |-> expiresAt,
                                  twentyApiKey |-> refreshData.twentyApiKey,
                                  resource |-> resource])
                  /\ ret' = [op |-> "exchangeRefreshToken",
                             token |-> refreshToken, client |-> client,
                             status |-> "ok",
                             request |-> [given |-> given, scopes |-> scopes],
                             access_token |-> accessToken,
                             expires_in |-> accessTokenTTL,
                             scope |-> effective]
                  /\ origin' = MapSet(origin, accessToken, origin[refreshToken])
            /\ tokenCount' = tokenCount + 1
            /\ refreshTokens' = RefreshTokenAfterExchange(refreshToken)
    /\ UNCHANGED <<clients, codes, now, clientCount, codeCount, ticks,
                   submits, submittedKey, exchanges, revoked, budget, aside>>

(***************************************************************************)
(* now > tokenData.expiresAt, in seconds                                   *)
(***************************************************************************)
\* Faulty variant: the token already counts as expired at its expiry second.
AccessExpiredAtExpiry(tokenData) == nowSeconds >= tokenData.expiresAt
AccessExpired(tokenData) == nowSeconds > tokenData.expiresAt

(***************************************************************************)
(* verifyAccessToken(token)                                                *)
(***************************************************************************)
verifyAccessToken(token) ==
    /\ Idle
    /\ IF token \notin DOMAIN tokens
       THEN /\ ret' = [op |-> "verifyAccessToken", token |-> token,
                       status |-> "Invalid access token"]
            /\ UNCHANGED tokens
       ELSE IF AccessExpired(tokens[token])
       THEN /\ tokens' = MapDelete(tokens, token)
            /\ ret' = [op |-> "verifyAccessToken", token |-> token,
                       status |-> "Access token expired"]
       ELSE /\ ret' = [op |-> "verifyAccessToken", token |-> token,
                       status |-> "ok",
                       clientId |-> tokens[token].clientId,
                       scopes |-> tokens[token].scopes,
                       expiresAt |-> tokens[token].expiresAt,
                       resource |-> tokens[token].resource,
                       extra |-> [twentyApiKey |-> tokens[token].twentyApiKey]]
            /\ UNCHANGED tokens
    /\ UNCHANGED <<clients, codes, refreshTokens, now, clientCount,
                   codeCount, tokenCount, ticks, submits, history, budget, aside>>

(***************************************************************************)
(* The hint tests and the ownership test of revokeToken.                   *)
(***************************************************************************)
TryAccessToken(token_type_hint) ==
    ~Truthy(token_type_hint) \/ token_type_hint = "access_token"
TryRefreshToken(token_type_hint) ==
    ~Truthy(token_type_hint) \/ token_type_hint = "refresh_token"
\* Faulty variant: any client may revoke a stored token.
RevocableByAnyone(store, token, client) == token \in DOMAIN store
RevocableBy(store, token, client) ==
    token \in DOMAIN store /\ store[token].clientId = client
\* Faulty variant: the revoked access token is left in the store.
TokensKeptAfterRevoke(token) == tokens
TokensAfterRevoke(token) == MapDelete(tokens, token)
RefreshTokensAfterRevoke(token) == MapDelete(refreshTokens, token)

(***************************************************************************)
(* revokeToken(client, {token, token_type_hint})                           *)
(***************************************************************************)
revokeToken(client, token, token_type_hint) ==
    /\ Idle
    /\ IF TryAccessToken(token_type_hint) /\ RevocableBy(tokens, token, client)
       THEN /\ tokens' = TokensAfterRevoke(token)
            /\ UNCHANGED refreshTokens
       ELSE IF TryRefreshToken(token_type_hint)
               /\ RevocableBy(refreshTokens, token, client)
       THEN /\ refreshTokens' = RefreshTokensAfterRevoke(token)
            /\ UNCHANGED tokens
       ELSE UNCHANGED <<tokens, refreshTokens>>
    /\ ret' = [op |-> "revokeToken", token |-> token, client |-> client,
               hint |-> token_type_hint, status |-> "ok"]
    /\ revoked' = IF /\ token_type_hint = Undefined
                     /\ \/ token \in DOMAIN tokens /\ tokens[token].clientId = client
                        \/ token \in DOMAIN refreshTokens
                           /\ refreshTokens[token].clientId = client
                  THEN revoked \cup {token}
                  ELSE revoked
    /\ UNCHANGED <<clients, codes, now, clientCount, codeCount, tokenCount,
                   ticks, submits, submittedKey, origin, exchanges, budget, aside>>

(***************************************************************************)
(* getApiKeyForToken(token): tokenData?.twentyApiKey || null               *)
(***************************************************************************)
getApiKeyForToken(token) ==
    /\ Idle
    /\ ret' = [op |-> "getApiKeyForToken", token |-> token,
               value |-> IF token \in DOMAIN tokens
                            /\ Truthy(tokens[token].twentyApiKey)
                         THEN tokens[token].twentyApiKey
                         ELSE Null]
    /\ UNCHANGED <<stores, now, clientCount, codeCount, tokenCount, ticks,
                   submits, history, budget, aside>>

(***************************************************************************)
(* cleanup()                                                               *)
(***************************************************************************)
\* Faulty variant: the millisecond expiry of a code is compared with the
\* clock in seconds, so no code is ever found expired.
ExpiredCodesInSeconds == {c \in DOMAIN codes : FALSE}
ExpiredCodes == {c \in DOMAIN codes : MsAfter(now, codes[c].expiresAt)}
\* Faulty variant: an access token is swept in the second of its expiry.
ExpiredTokensAtExpiry == {t \in DOMAIN tokens : nowSeconds >= tokens[t].expiresAt}
ExpiredTokens == {t \in DOMAIN tokens : nowSeconds > tokens[t].expiresAt}
ExpiredRefreshTokens ==
    {t \in DOMAIN refreshTokens :
        nowSeconds - refreshTokens[t].createdAt > refreshTokenTTL}

cleanup ==
    /\ Idle
    /\ codes' = [code \in (DOMAIN codes) \ ExpiredCodes |-> codes[code]]
    /\ tokens' = [token \in (DOMAIN tokens) \ ExpiredTokens |-> tokens[token]]
    /\ refreshTokens' = [token \in (DOMAIN refreshTokens) \ ExpiredRefreshTokens
                            |-> refreshTokens[token]]
    /\ ret' = [op |-> "cleanup",
               deleted |-> [codes |-> Cardinality(ExpiredCodes),
                            tokens |-> Cardinality(ExpiredTokens),
                            refreshTokens |-> Cardinality(ExpiredRefreshTokens)]]
    /\ UNCHANGED <<clients, now, clientCount, codeCount, tokenCount, ticks,
                   submits, history, budget, aside>>

(***************************************************************************)
(* The passage of time between two calls.                                  *)
(***************************************************************************)
Tick(d) ==
    /\ Idle
    /\ ticks < budget.ticks
    /\ now' = MsPlus(now, d)
    /\ ticks' = ticks + 1
    /\ ret' = NoCall
    /\ UNCHANGED <<stores, clientCount, codeCount, tokenCount, submits,
                   history, budget, aside>>

(***************************************************************************)
(* The result of a call reaches its caller before the event loop runs the  *)
(* next call.                                                              *)
(***************************************************************************)
Return ==
    /\ ret # NoCall
    /\ ret' = NoCall
    /\ UNCHANGED <<stores, now, clientCount, codeCount, tokenCount, ticks,
                   submits, history, budget, aside>>

Next ==
    \/ \E name \in ClientNames : registerClient(name)
    \/ \E clientId \in 1..budget.clients : getClient(clientId)
    \/ \E client \in DOMAIN clients, params \in AuthorizeParams :
           authorize(client, params)
    \/ \E body \in Bodies : handleAuthorizeSubmitBegin(body)
    \/ \E i \in 1..budget.inflight, response \in Responses :
           handleAuthorizeSubmitFinish(i, response)
    \/ \E client \in DOMAIN clients, code \in Codes :
           challengeForAuthorizationCode(client, code)
    \/ \E client \in DOMAIN clients, code \in Codes, resource \in Resources :
           exchangeAuthorizationCode(client, code, resource)
    \/ \E client \in DOMAIN clients, token \in Tokens, request \in ScopeRequests,
          resource \in Resources :
           exchangeRefreshToken(client, token, request.given, request.scopes,
                                resource)
    \/ \E token \in Tokens : verifyAccessToken(token)
    \/ \E client \in DOMAIN clients, token \in Tokens, hint \in Hints :
           revokeToken(client, token, hint)
    \/ \E token \in Tokens : getApiKeyForToken(token)
    \/ cleanup
    \/ \E d \in TickSteps : Tick(d)
    \/ Return

Spec == Init /\ [][Next]_vars

(***************************************************************************)
(* The authorization page (generateAuthorizePage, escapeHtml).             *)
(*                                                                         *)
(* A text is a sequence of characters.  The page is the sequence of the    *)
(* parts of the template literal: the literal pieces of markup, each kept  *)
(* whole under a name, and between them the interpolated texts.            *)
(***************************************************************************)
MaxTextLen == 2
MaxScopes == 2

Chars == {"a", "&", "<", ">", "\"", "'"}
Texts == UNION {[1..n -> Chars] : n \in 0..MaxTextLen}
Absent == <<"undefined">>
Reverse(t) == [i \in 1..Len(t) |-> t[Len(t) + 1 - i]]
ScopeLists(t) ==
    {[i \in 1..n |-> IF i % 2 = 1 THEN t ELSE Reverse(t)] : n \in 0..MaxScopes}
PageOptions(t) ==
    [clientName : {Absent, t}, scopesGiven : BOOLEAN, scopes : ScopeLists(t),
     state : {Absent, t}, redirectUri : {Absent, t},
     codeChallenge : {Absent, t}, error : {Absent, t}]

(***************************************************************************)
(* !str and a || b on texts                                                *)
(***************************************************************************)
Falsy(str) == str = << >> \/ str = Absent
OrText(a, b) == IF Falsy(a) THEN b ELSE a

(***************************************************************************)
(* String.prototype.replace(/ch/g, entity)                                 *)
(***************************************************************************)
RECURSIVE replace(_, _, _)
replace(str, ch, entity) ==
    IF str = << >> THEN << >>
    ELSE (IF Head(str) = ch THEN entity ELSE <<Head(str)>>)
             \o replace(Tail(str), ch, entity)

(***************************************************************************)
(* escapeHtml(str)                                                         *)
(***************************************************************************)
\* Faulty variant: the apostrophe is left as it is.
escapeHtmlQuotOnly(str) ==
    IF Falsy(str) THEN << >>
    ELSE replace(replace(replace(replace(str,
             "&", <<"&", "a", "m", "p", ";">>),
             "<", <<"&", "l", "t", ";">>),
             ">", <<"&", "g", "t", ";">>),
             "\"", <<"&", "q", "u", "o", "t", ";">>)
escapeHtml(str) ==
    IF Falsy(str) THEN << >>
    ELSE replace(replace(replace(replace(replace(str,
             "&", <<"&", "a", "m", "p", ";">>),
             "<", <<"&", "l", "t", ";">>),
             ">", <<"&", "g", "t", ";">>),
             "\"", <<"&", "q", "u", "o", "t", ";">>),
             "'", <<"&", "#", "3", "9", ";">>)

(***************************************************************************)
(* generateAuthorizePage(options)                                          *)
(***************************************************************************)
Markup(name) == [markup |-> name, chars |-> << >>]
Interpolated(str) == [markup |-> "", chars |-> str]
UnknownApplication ==
    <<"U", "n", "k", "n", "o", "w", "n", " ",
      "A", "p", "p", "l", "i", "c", "a", "t", "i", "o", "n">>

RECURSIVE scopeItems(_)
scopeItems(scopes) ==
    IF scopes = << >> THEN << >>
    ELSE <<Markup("<li>"), Interpolated(escapeHtml(Head(scopes))),
           Markup("</li>")>> \o scopeItems(Tail(scopes))

generateAuthorizePage(o) ==
    LET scopeList == IF o.scopesGiven /\ Len(o.scopes) > 0
                     THEN scopeItems(o.scopes)
                     ELSE <<Markup("<li>mcp:tools (default)</li>")>>
        errorHtml == IF ~Falsy(o.error)
                     THEN <<Markup("<div class=\"error\">"),
                            Interpolated(escapeHtml(o.error)),
                            Markup("</div>")>>
                     ELSE << >>
    IN <<Markup("<!DOCTYPE html> ... <div class=\"name\">"),
         Interpolated(escapeHtml(OrText(o.clientName, UnknownApplication))),
         Markup("</div> ... <ul>")>>
       \o scopeList
       \o <<Markup("</ul> ...")>>
       \o errorHtml
       \o <<Markup("<form ...> <input type=\"hidden\" name=\"state\" value=\""),
            Interpolated(escapeHtml(OrText(o.state, << >>))),
            Markup("\"> <input type=\"hidden\" name=\"redirect_uri\" value=\""),
            Interpolated(escapeHtml(OrText(o.redirectUri, << >>))),
            Markup("\"> <input type=\"hidden\" name=\"code_challenge\" value=\""),
            Interpolated(escapeHtml(OrText(o.codeChallenge, << >>))),
            Markup("\"> ... </html>")>>

(***************************************************************************)
(* The two functions applied to drawn inputs.                              *)
(***************************************************************************)
PageStart ==
    /\ text \in Texts
    /\ options \in PageOptions(text)
    /\ output = NoOutput

ApplyEscapeHtml ==
    /\ output = NoOutput
    /\ output' = [kind |-> "escapeHtml", value |-> escapeHtml(text)]
    /\ UNCHANGED <<text, options, provider, proxyVars, adapterVars>>

ApplyGenerateAuthorizePage ==
    /\ output = NoOutput
    /\ output' = [kind |-> "generateAuthorizePage",
                  value |-> generateAuthorizePage(options)]
    /\ UNCHANGED <<text, options, provider, proxyVars, adapterVars>>

InitPage ==
    /\ budget = TimedBudget
    /\ ProviderStart
    /\ PageStart
    /\ ProxyAtRest
    /\ AdapterAtRest

NextPage ==
    \/ ApplyEscapeHtml
    \/ ApplyGenerateAuthorizePage

SpecPage == InitPage /\ [][NextPage]_vars

(***************************************************************************)
(* The desktop proxy (TwentyCRMProxy and main).                            *)
(*                                                                         *)
(* main() runs without interruption up to its first await, and again from  *)
(* the settling of each await to the next one, so it is one action per     *)
(* await: the remote client.connect, the remote client.listTools and the   *)
(* local server.connect.  A rejected await reaches main().catch.           *)
(***************************************************************************)
MaxRequests == 3
MaxPending == 2

UrlValues == {Undefined, "", "https://remote/mcp", "remote/mcp"}
ParsableUrls == {"https://remote/mcp"}
KeyValues == {Undefined, "", "key"}
Catalogs ==
    {[hasTools |-> FALSE, tools |-> << >>],
     [hasTools |-> TRUE, tools |-> <<"create_person">>],
     [hasTools |-> TRUE, tools |-> <<"create_person", "update_person">>]}
ToolNames == {"create_person", "delete_person"}
ToolArguments ==
    {[given |-> FALSE, value |-> "{}"],
     [given |-> TRUE, value |-> "{firstName: Ada}"]}
Awaited == {[ok |-> TRUE, error |-> ""], [ok |-> FALSE, error |-> "ECONNREFUSED"]}
RemoteResults ==
    {[ok |-> TRUE, isErrorObject |-> FALSE, message |-> "", value |-> "created"],
     [ok |-> FALSE, isErrorObject |-> TRUE, message |-> "Request timed out",
      value |-> "[object Error]"],
     [ok |-> FALSE, isErrorObject |-> FALSE, message |-> "", value |-> "closed"]}

Info(msg, detail) == [level |-> "INFO", msg |-> msg, detail |-> detail]
Error(msg, detail) == [level |-> "ERROR", msg |-> msg, detail |-> detail]

(***************************************************************************)
(* !serverUrl, !apiKey                                                     *)
(***************************************************************************)
\* Faulty variant: only an unset variable counts as missing.
MissingWhenUnset(v) == v = Undefined
Missing(v) == ~Truthy(v)

(***************************************************************************)
(* main().catch: log the error and exit with code 1.                       *)
(***************************************************************************)
Fatal(lines, error) ==
    /\ log' = lines \o <<Error("Fatal error", error)>>
    /\ exitCode' = 1
    /\ pc' = "exited"

(***************************************************************************)
(* main(), to the await of client.connect in createRemoteClient.           *)
(***************************************************************************)
main ==
    /\ pc = "start"
    /\ IF Missing(env.REMOTE_MCP_URL)
       THEN /\ log' = Append(log,
                 Error("Missing REMOTE_MCP_URL environment variable", ""))
            /\ exitCode' = 1
            /\ pc' = "exited"
            /\ UNCHANGED connectAttempts
       ELSE IF Missing(env.TWENTY_API_KEY)
       THEN /\ log' = Append(log,
                 Error("Missing TWENTY_API_KEY environment variable", ""))
            /\ exitCode' = 1
            /\ pc' = "exited"
            /\ UNCHANGED connectAttempts
       ELSE LET lines ==
                    log \o <<Info("Initializing Twenty CRM MCP Proxy for",
                                  env.REMOTE_MCP_URL),
                             Info("Discovering tools from remote server...", ""),
                             Info("Connecting to remote server",
                                  env.REMOTE_MCP_URL)>>
            IN IF env.REMOTE_MCP_URL \notin ParsableUrls
               THEN /\ Fatal(lines, "TypeError: Invalid URL")
                    /\ UNCHANGED connectAttempts
               ELSE /\ log' = lines
                    /\ connectAttempts' = connectAttempts + 1
                    /\ pc' = "connect"
                    /\ UNCHANGED exitCode
    /\ UNCHANGED <<env, remoteClient, discoveries, remoteCatalog, remoteTools,
                   stdioConnected, requests, pending, forwarded, answer,
                   provider, pageVars, adapterVars>>

(***************************************************************************)
(* From the settling of client.connect to the await of client.listTools.   *)
(***************************************************************************)
connectSettles(awaited) ==
    /\ pc = "connect"
    /\ IF awaited.ok
       THEN /\ log' = Append(log, Info("Connected to remote server", ""))
            /\ remoteClient' = connectAttempts
            /\ discoveries' = discoveries + 1
            /\ pc' = "listTools"
            /\ UNCHANGED exitCode
       ELSE /\ Fatal(log, awaited.error)
            /\ UNCHANGED <<remoteClient, discoveries>>
    /\ UNCHANGED <<env, connectAttempts, remoteCatalog, remoteTools,
                   stdioConnected, requests, pending, forwarded, answer,
                   provider, pageVars, adapterVars>>

(***************************************************************************)
(* From the settling of client.listTools to the await of server.connect.   *)
(***************************************************************************)
listToolsSettles(awaited) ==
    /\ pc = "listTools"
    /\ IF awaited.ok
       THEN LET tools == IF remoteCatalog.hasTools THEN remoteCatalog.tools
                         ELSE << >>
            IN /\ remoteTools' = tools
               /\ log' = Append(log, Info("Found tools", ToString(Len(tools))))
               /\ pc' = "stdio"
               /\ UNCHANGED exitCode
       ELSE /\ Fatal(log, awaited.error)
            /\ UNCHANGED remoteTools
    /\ UNCHANGED <<env, remoteClient, connectAttempts, discoveries,
                   remoteCatalog, stdioConnected, requests, pending,
                   forwarded, answer, provider, pageVars, adapterVars>>

(***************************************************************************)
(* From the settling of server.connect(transport) to the end of main().    *)
(***************************************************************************)
serverConnectSettles(awaited) ==
    /\ pc = "stdio"
    /\ IF awaited.ok
       THEN /\ stdioConnected' = TRUE
            /\ log' = Append(log, Info("Proxy server started - tools available",
                                       ToString(Len(remoteTools))))
            /\ pc' = "serving"
            /\ UNCHANGED exitCode
       ELSE /\ Fatal(log, awaited.error)
            /\ UNCHANGED stdioConnected
    /\ UNCHANGED <<env, remoteClient, connectAttempts, discoveries,
                   remoteCatalog, remoteTools, requests, pending, forwarded,
                   answer, provider, pageVars, adapterVars>>

(***************************************************************************)
(* The ListTools handler.                                                  *)
(***************************************************************************)
\* Faulty variant: the list is read from the remote server at each request.
ListedToolsNow == remoteCatalog.tools
ListedTools == remoteTools

ListToolsRequest ==
    /\ pc = "serving"
    /\ requests < MaxRequests
    /\ requests' = requests + 1
    /\ answer' = [op |-> "tools/list", tools |-> ListedTools]
    /\ UNCHANGED <<env, pc, exitCode, log, remoteClient, connectAttempts,
                   discoveries, remoteCatalog, remoteTools, stdioConnected,
                   pending, forwarded, provider, pageVars, adapterVars>>

(***************************************************************************)
(* The CallTool handler, through callRemoteTool and getRemoteClient to     *)
(* the await it stops at: client.callTool, or client.connect when          *)
(* this.remoteClient is not set.                                           *)
(***************************************************************************)
\* Faulty variant: the arguments of the request are not passed on.
CallArgumentsEmpty(args) == "{}"
CallArguments(args) == IF args.given THEN args.value ELSE "{}"

\* Faulty variant: the client created at startup is not looked at.
RemoteClientNeverSet == FALSE
RemoteClientSet == remoteClient # NoClient

CallToolRequest(name, args) ==
    /\ pc = "serving"
    /\ requests < MaxRequests
    /\ Len(pending) < MaxPending
    /\ requests' = requests + 1
    /\ LET arguments == CallArguments(args)
       IN IF ~RemoteClientSet
          THEN /\ connectAttempts' = connectAttempts + 1
               /\ log' = Append(log, Info("Connecting to remote server",
                                          env.REMOTE_MCP_URL))
               /\ pending' = Append(pending,
                                 [at |-> "connect", name |-> name,
                                  arguments |-> arguments,
                                  client |-> connectAttempts + 1,
                                  request |-> [name |-> name, args |-> args]])
               /\ UNCHANGED forwarded
          ELSE /\ forwarded' = Append(forwarded,
                                 [client |-> remoteClient, name |-> name,
                                  arguments |-> arguments])
               /\ pending' = Append(pending,
                                 [at |-> "callTool", name |-> name,
                                  arguments |-> arguments,
                                  client |-> remoteClient,
                                  request |-> [name |-> name, args |-> args]])
               /\ UNCHANGED <<connectAttempts, log>>
    /\ UNCHANGED <<env, pc, exitCode, remoteClient, discoveries,
                   remoteCatalog, remoteTools, stdioConnected, answer,
                   provider, pageVars, adapterVars>>

(***************************************************************************)
(* error instanceof Error ? error.message : String(error)                  *)
(***************************************************************************)
errorMessage(result) ==
    IF result.isErrorObject THEN result.message ELSE result.value

(***************************************************************************)
(* The CallTool handler from the settling of its await to its return.      *)
(***************************************************************************)
CallToolSettles(i, result) ==
    /\ pc = "serving"
    /\ i \in 1..Len(pending)
    /\ LET call == pending[i]
           failed == [op |-> "tools/call", name |-> call.name,
                      isError |-> TRUE, text |-> "Error: ",
                      value |-> errorMessage(result)]
       IN IF ~result.ok
          THEN /\ log' = Append(log, Error("Tool call failed",
                                           errorMessage(result)))
               /\ answer' = failed
               /\ pending' = RemoveAt(pending, i)
               /\ UNCHANGED <<remoteClient, forwarded>>
          ELSE IF call.at = "connect"
          THEN /\ log' = Append(log, Info("Connected to remote server", ""))
               /\ remoteClient' = call.client
               /\ forwarded' = Append(forwarded,
                                  [client |-> call.client, name |-> call.name,
                                   arguments |-> call.arguments])
               /\ pending' = [pending EXCEPT ![i].at = "callTool"]
               /\ UNCHANGED answer
          ELSE /\ answer' = [op |-> "tools/call", name |-> call.name,
                               isError |-> FALSE, text |-> "",
                               value |-> result.value]
               /\ pending' = RemoveAt(pending, i)
               /\ UNCHANGED <<log, remoteClient, forwarded>>
    /\ UNCHANGED <<env, pc, exitCode, connectAttempts, discoveries,
                   remoteCatalog, remoteTools, stdioConnected, requests,
                   provider, pageVars, adapterVars>>

(***************************************************************************)
(* The remote server changes the tools it lists.                           *)
(***************************************************************************)
CatalogChanges(catalog) ==
    /\ pc # "exited"
    /\ catalog # remoteCatalog
    /\ remoteCatalog' = catalog
    /\ UNCHANGED <<env, pc, exitCode, log, remoteClient, connectAttempts,
                   discoveries, remoteTools, stdioConnected, requests,
                   pending, forwarded, answer, provider, pageVars, adapterVars>>

InitProxy ==
    /\ budget = TimedBudget
    /\ ProviderStart
    /\ PageAtRest
    /\ env \in [REMOTE_MCP_URL : UrlValues, TWENTY_API_KEY : KeyValues]
    /\ remoteCatalog \in Catalogs
    /\ ProxyNotStarted
    /\ AdapterAtRest

NextProxy ==
    \/ main
    \/ \E awaited \in Awaited : connectSettles(awaited)
    \/ \E awaited \in Awaited : listToolsSettles(awaited)
    \/ \E awaited \in Awaited : serverConnectSettles(awaited)
    \/ ListToolsRequest
    \/ \E name \in ToolNames, args \in ToolArguments :
           CallToolRequest(name, args)
    \/ \E i \in 1..MaxPending, result \in RemoteResults :
           CallToolSettles(i, result)
    \/ \E catalog \in Catalogs : CatalogChanges(catalog)

SpecProxy == InitProxy /\ [][NextProxy]_vars

(***************************************************************************)
(* Field normalization of the adapter server (normalizeEmailsValue,        *)
(* normalizePhonesValue, normalizeAddressValue, normalizeLinksValue).      *)
(* The functions are exercised by test/normalization.test.js; their        *)
(* bodies follow the algorithms of the specification, section 4.2.1.       *)
(***************************************************************************)
MaxItems == 2

Has(v, key) == v.kind = "object" /\ key \in DOMAIN v.fields
Field(v, key) == v.fields[key]

\* Faulty variant: the structured shape is never recognised.
AlreadyStructuredNever(v, key) == FALSE
AlreadyStructured(v, key) == Has(v, key)

(***************************************************************************)
(* The value of the first of the keys the object has, or the default.      *)
(***************************************************************************)
RECURSIVE FirstOf(_, _, _)
FirstOf(v, keys, default) ==
    IF keys = << >> THEN default
    ELSE IF Has(v, Head(keys)) THEN Field(v, Head(keys))
    ELSE FirstOf(v, Tail(keys), default)

Rest(items) == Tail(items)
NullIfEmpty(items) == IF items = << >> THEN Nul ELSE Arr(items)

(***************************************************************************)
(* EMAILS                                                                  *)
(***************************************************************************)
EmailAddress(entry) ==
    IF entry.kind = "object" THEN FirstOf(entry, <<"value">>, Str(""))
    ELSE entry

normalizeEmailsValue(v) ==
    IF v.kind = "string"
    THEN Obj([k \in {"primaryEmail", "additionalEmails"} |->
                 IF k = "primaryEmail" THEN v ELSE Nul])
    ELSE IF v.kind = "array" /\ v.items # << >>
    THEN Obj([k \in {"primaryEmail", "additionalEmails"} |->
                 IF k = "primaryEmail" THEN EmailAddress(Head(v.items))
                 ELSE NullIfEmpty([i \in 1..Len(Rest(v.items)) |->
                          Obj([j \in {"value"} |->
                                  EmailAddress(Rest(v.items)[i])])])])
    ELSE IF AlreadyStructured(v, "primaryEmail") THEN v
    ELSE v

(***************************************************************************)
(* PHONES                                                                  *)
(***************************************************************************)
PhoneEntry(entry) ==
    [k \in {"number", "countryCode", "callingCode"} |->
        IF entry.kind = "object" THEN FirstOf(entry, <<k>>, Str(""))
        ELSE IF k = "number" THEN entry ELSE Str("")]

normalizePhonesValue(v) ==
    IF v.kind = "string"
    THEN Obj([k \in {"primaryPhoneNumber", "primaryPhoneCallingCode",
                     "primaryPhoneCountryCode", "additionalPhones"} |->
                 CASE k = "primaryPhoneNumber" -> v
                   [] k = "additionalPhones" -> Nul
                   [] OTHER -> Str("")])
    ELSE IF v.kind = "array" /\ v.items # << >>
    THEN LET first == PhoneEntry(Head(v.items))
         IN Obj([k \in {"primaryPhoneNumber", "primaryPhoneCallingCode",
                        "primaryPhoneCountryCode", "additionalPhones"} |->
                    CASE k = "primaryPhoneNumber" -> first["number"]
                      [] k = "primaryPhoneCallingCode" -> first["callingCode"]
                      [] k = "primaryPhoneCountryCode" -> first["countryCode"]
                      [] OTHER ->
                           NullIfEmpty([i \in 1..Len(Rest(v.items)) |->
                               Obj(PhoneEntry(Rest(v.items)[i]))])])
    ELSE IF AlreadyStructured(v, "primaryPhoneNumber") THEN v
    ELSE v

(***************************************************************************)
(* ADDRESS                                                                 *)
(***************************************************************************)
AddressKeys ==
    {"addressStreet1", "addressStreet2", "addressCity", "addressState",
     "addressPostcode", "addressCountry", "addressLat", "addressLng"}

\* Faulty variant: the postcode is read from postalCode only.
PostcodeKeysStandardOnly == <<"postalCode">>
PostcodeKeys == <<"postalCode", "zip">>

SourceKeys(k) ==
    CASE k = "addressStreet1" -> <<"street1", "addressLine1">>
      [] k = "addressStreet2" -> <<"street2", "addressLine2">>
      [] k = "addressCity" -> <<"city">>
      [] k = "addressState" -> <<"state">>
      [] k = "addressPostcode" -> PostcodeKeys
      [] k = "addressCountry" -> <<"country">>
      [] k = "addressLat" -> <<"addressLat">>
      [] k = "addressLng" -> <<"addressLng">>

normalizeAddressValue(v) ==
    IF v.kind = "string"
    THEN Obj([k \in AddressKeys |->
                 IF k = "addressStreet1" THEN v
                 ELSE IF k \in {"addressLat", "addressLng"} THEN Nul
                 ELSE Str("")])
    ELSE IF AlreadyStructured(v, "addressStreet1") THEN v
    ELSE IF v.kind = "object"
    THEN Obj([k \in AddressKeys |->
                 FirstOf(v, SourceKeys(k),
                         IF k \in {"addressLat", "addressLng"} THEN Nul
                         ELSE Str(""))])
    ELSE v

(***************************************************************************)
(* LINKS                                                                   *)
(***************************************************************************)
LinkEntry(entry) ==
    [k \in {"url", "label"} |->
        IF entry.kind = "object" THEN FirstOf(entry, <<k>>, Str(""))
        ELSE IF k = "url" THEN entry ELSE Str("")]

normalizeLinksValue(v) ==
    IF v.kind = "string"
    THEN Obj([k \in {"primaryLinkUrl", "primaryLinkLabel", "secondaryLinks"} |->
                 CASE k = "primaryLinkUrl" -> v
                   [] k = "primaryLinkLabel" -> Str("")
                   [] OTHER -> Nul])
    ELSE IF AlreadyStructured(v, "primaryLinkUrl") THEN v
    ELSE IF v.kind = "array" /\ v.items # << >>
    THEN LET first == LinkEntry(Head(v.items))
         IN Obj([k \in {"primaryLinkUrl", "primaryLinkLabel",
                        "secondaryLinks"} |->
                    CASE k = "primaryLinkUrl" -> first["url"]
                      [] k = "primaryLinkLabel" -> first["label"]
                      [] OTHER ->
                           NullIfEmpty([i \in 1..Len(Rest(v.items)) |->
                               Obj(LinkEntry(Rest(v.items)[i]))])])
    ELSE v

normalize(type, v) ==
    CASE type = "EMAILS" -> normalizeEmailsValue(v)
      [] type = "PHONES" -> normalizePhonesValue(v)
      [] type = "ADDRESS" -> normalizeAddressValue(v)
      [] type = "LINKS" -> normalizeLinksValue(v)

(***************************************************************************)
(* The inputs the functions are applied to.                                *)
(***************************************************************************)
Strings == {Str("a"), Str("b")}
ArraysOf(entries) ==
    {Arr(items) : items \in UNION {[1..n -> entries] : n \in 1..MaxItems}}

PhoneObjects ==
    {Obj([k \in present |-> Str(k)]) :
        present \in {{"number"}, {"number", "countryCode", "callingCode"}}}
LinkObjects ==
    {Obj([k \in present |-> Str(k)]) : present \in {{"url"}, {"url", "label"}}}

StructuredOver(primary, others) ==
    {Obj([k \in present \cup {primary} |-> Str(k)]) : present \in SUBSET others}

StandardAddresses ==
    {Obj([k \in present |-> Str(k)]) :
        present \in SUBSET {"street1", "street2", "city", "state",
                            "postalCode", "country", "addressLat"}}
AlternateAddresses ==
    {Obj([k \in present |-> Str(k)]) :
        present \in SUBSET {"addressLine1", "addressLine2", "city", "state",
                            "zip", "country", "addressLng"}}

Inputs(type) ==
    CASE type = "EMAILS" ->
             Strings \cup ArraysOf(Strings)
                 \cup StructuredOver("primaryEmail", {"additionalEmails"})
      [] type = "PHONES" ->
             Strings \cup ArraysOf(Strings \cup PhoneObjects)
                 \cup StructuredOver("primaryPhoneNumber",
                          {"primaryPhoneCallingCode", "additionalPhones"})
      [] type = "ADDRESS" ->
             Strings \cup StandardAddresses \cup AlternateAddresses
                 \cup StructuredOver("addressStreet1",
                          {"addressCity", "addressLat", "street1"})
      [] type = "LINKS" ->
             Strings \cup ArraysOf(Strings \cup LinkObjects)
                 \cup StructuredOver("primaryLinkUrl",
                          {"primaryLinkLabel", "secondaryLinks"})

NormalizeStart ==
    /\ fieldType \in {"EMAILS", "PHONES", "ADDRESS", "LINKS"}
    /\ value \in Inputs(fieldType)
    /\ normalized = Nul
    /\ renormalized = Nul
    /\ applied = 0

Normalize ==
    /\ applied = 0
    /\ normalized' = normalize(fieldType, value)
    /\ applied' = 1
    /\ UNCHANGED <<fieldType, value, renormalized, tool, callArgs, payload,
                   stage,
                   transmitted, provider, pageVars, proxyVars>>

NormalizeAgain ==
    /\ applied = 1
    /\ renormalized' = normalize(fieldType, normalized)
    /\ applied' = 2
    /\ UNCHANGED <<fieldType, value, normalized, tool, callArgs, payload,
                   stage,
                   transmitted, provider, pageVars, proxyVars>>

InitNormalize ==
    /\ budget = TimedBudget
    /\ ProviderStart
    /\ PageAtRest
    /\ ProxyAtRest
    /\ NormalizeStart
    /\ PersonAtRest

NextNormalize ==
    \/ Normalize
    \/ NormalizeAgain

SpecNormalize == InitNormalize /\ [][NextNormalize]_vars

(***************************************************************************)
(* The write path of create_person and update_person in the adapter        *)
(* server: field normalization, relation aliasing, the copy of emails      *)
(* into the custom field eMails, transmission.  The steps and their order  *)
(* follow the specification, section 4.2, and the changelog of 0.2.1.      *)
(***************************************************************************)
PersonTools == {"create_person", "update_person"}
EmailsValues ==
    {Str("a"), Arr(<<Str("a"), Str("b")>>),
     Obj([k \in {"primaryEmail", "additionalEmails"} |->
             IF k = "primaryEmail" THEN Str("a") ELSE Nul])}
ArgumentValues(key) ==
    CASE key = "emails" -> EmailsValues
      [] key = "eMails" -> {Str("b")}
      [] key = "companyId" -> {Str("c1")}
      [] key = "jobTitle" -> {Str("cto")}
PersonArguments ==
    UNION {{f \in [present -> UNION {ArgumentValues(k) : k \in present}] :
               \A k \in present : f[k] \in ArgumentValues(k)} :
           present \in SUBSET {"emails", "eMails", "companyId", "jobTitle"}}

(***************************************************************************)
(* Every EMAILS argument is passed through field normalization.            *)
(***************************************************************************)
NormalizedFields(p) ==
    [k \in DOMAIN p |-> IF k \in {"emails", "eMails"}
                        THEN normalizeEmailsValue(p[k]) ELSE p[k]]

(***************************************************************************)
(* companyId: "abc" becomes company: { id: "abc" }.                        *)
(***************************************************************************)
AliasedRelations(p) ==
    IF "companyId" \in DOMAIN p
    THEN [k \in ((DOMAIN p) \ {"companyId"}) \cup {"company"} |->
             IF k = "company" THEN Obj([j \in {"id"} |-> p["companyId"]])
             ELSE p[k]]
    ELSE p

(***************************************************************************)
(* The value of emails is copied into eMails and emails is cleared.        *)
(***************************************************************************)
\* Faulty variant: the value is copied and emails is left in the payload.
RewrittenKeepingEmails(p) ==
    IF "emails" \in DOMAIN p
    THEN [k \in (DOMAIN p) \cup {"eMails"} |->
             IF k = "eMails" THEN p["emails"] ELSE p[k]]
    ELSE p
Rewritten(p) ==
    IF "emails" \in DOMAIN p
    THEN [k \in ((DOMAIN p) \ {"emails"}) \cup {"eMails"} |->
             IF k = "eMails" THEN p["emails"] ELSE p[k]]
    ELSE p

PersonStart ==
    /\ tool \in PersonTools
    /\ callArgs \in PersonArguments
    /\ payload = callArgs
    /\ stage = "received"
    /\ transmitted = << >>

NormalizeFields ==
    /\ stage = "received"
    /\ payload' = NormalizedFields(payload)
    /\ stage' = "normalized"
    /\ UNCHANGED <<fieldType, value, normalized, renormalized, applied, tool,
                   callArgs, transmitted, provider, pageVars, proxyVars>>

AliasRelations ==
    /\ stage = "normalized"
    /\ payload' = AliasedRelations(payload)
    /\ stage' = "aliased"
    /\ UNCHANGED <<fieldType, value, normalized, renormalized, applied, tool,
                   callArgs, transmitted, provider, pageVars, proxyVars>>

RewriteEmails ==
    /\ stage = "aliased"
    /\ payload' = IF tool \in PersonTools THEN Rewritten(payload) ELSE payload
    /\ stage' = "rewritten"
    /\ UNCHANGED <<fieldType, value, normalized, renormalized, applied, tool,
                   callArgs, transmitted, provider, pageVars, proxyVars>>

Transmit ==
    /\ stage = "rewritten"
    /\ transmitted' = Append(transmitted, payload)
    /\ stage' = "transmitted"
    /\ UNCHANGED <<fieldType, value, normalized, renormalized, applied, tool,
                   callArgs, payload, provider, pageVars, proxyVars>>

InitPerson ==
    /\ budget = TimedBudget
    /\ ProviderStart
    /\ PageAtRest
    /\ ProxyAtRest
    /\ NormalizeAtRest
    /\ PersonStart

NextPerson ==
    \/ NormalizeFields
    \/ AliasRelations
    \/ RewriteEmails
    \/ Transmit

SpecPerson == InitPerson /\ [][NextPerson]_vars

(***************************************************************************)
(* Properties.                                                             *)
(***************************************************************************)

\* C1: an authorization code is exchanged successfully at most once; after
\* the successful exchange it is absent from the code store, and every later
\* exchange or challenge lookup of it fails.
C1_CodeExchangedAtMostOnce ==
    [][/\ \A c \in DOMAIN exchanges :
              /\ exchanges'[c] <= 1
              /\ exchanges'[c] >= 1 => c \notin DOMAIN codes'
       /\ (/\ ret'.op \in {"exchangeAuthorizationCode",
                           "challengeForAuthorizationCode"}
           /\ exchanges[ret'.code] >= 1) => ret'.status # "ok"]_vars

\* A second exchange of an already exchanged code has just failed.
C1_Witness ==
    /\ ret.op = "exchangeAuthorizationCode"
    /\ exchanges[ret.code] = 1
    /\ ret.status = "Invalid authorization code"

\* C2: every stored access token and refresh token holds the API key that was
\* submitted with the authorization code it descends from, and a successful
\* verifyAccessToken returns that key as extra.twentyApiKey.
C2_TokensBoundToSubmittedKey ==
    /\ \A t \in DOMAIN tokens :
           tokens[t].twentyApiKey = submittedKey[origin[t]]
    /\ \A t \in DOMAIN refreshTokens :
           refreshTokens[t].twentyApiKey = submittedKey[origin[t]]
    /\ (ret.op = "verifyAccessToken" /\ ret.status = "ok") =>
           ret.extra.twentyApiKey = submittedKey[origin[ret.token]]

\* An access token minted from a refresh token has just been verified while
\* a token of another authorization, bound to another key, is stored.
C2_Witness ==
    /\ ret.op = "verifyAccessToken"
    /\ ret.status = "ok"
    /\ \E r \in DOMAIN refreshTokens :
           origin[r] = origin[ret.token] /\ r < ret.token
    /\ \E t \in DOMAIN tokens :
           /\ origin[t] # origin[ret.token]
           /\ tokens[t].twentyApiKey # ret.extra.twentyApiKey

\* C3: an access token past its expiry never yields its API key, neither
\* through verifyAccessToken nor through getApiKeyForToken.
C3_ExpiredTokenYieldsNoKey ==
    [][\A t \in DOMAIN tokens :
           (nowSeconds > tokens[t].expiresAt) =>
               /\ (ret'.op = "verifyAccessToken" /\ ret'.token = t) =>
                      ret'.status # "ok"
               /\ (ret'.op = "getApiKeyForToken" /\ ret'.token = t) =>
                      ret'.value = Null]_vars

\* C4: verifyAccessToken fails as not-found for an unknown token, fails as
\* expired and deletes the token once more than 3600 seconds have passed
\* since its issuance, and otherwise returns the token's client id, scopes,
\* expiry and API key and changes no store.
C4_VerifyAccessToken ==
    [][/\ \A t \in (DOMAIN tokens') \ (DOMAIN tokens) :
              tokens'[t].expiresAt = now.s + 3600
       /\ ret'.op = "verifyAccessToken" =>
              IF ret'.token \notin DOMAIN tokens
              THEN ret'.status = "Invalid access token" /\ stores' = stores
              ELSE IF now.s > tokens[ret'.token].expiresAt
              THEN /\ ret'.status = "Access token expired"
                   /\ tokens' = [t \in (DOMAIN tokens) \ {ret'.token} |-> tokens[t]]
                   /\ <<clients, codes, refreshTokens>>' =
                          <<clients, codes, refreshTokens>>
              ELSE /\ ret'.status = "ok"
                   /\ ret'.clientId = tokens[ret'.token].clientId
                   /\ ret'.scopes = tokens[ret'.token].scopes
                   /\ ret'.expiresAt = tokens[ret'.token].expiresAt
                   /\ ret'.extra.twentyApiKey = tokens[ret'.token].twentyApiKey
                   /\ stores' = stores]_vars

\* verifyAccessToken has just rejected and deleted an expired token.
C4_Witness ==
    /\ ret.op = "verifyAccessToken"
    /\ ret.status = "Access token expired"
    /\ ret.token \notin DOMAIN tokens

\* C5: exchangeRefreshToken by a client other than the refresh token's owner
\* fails, mints no access token and changes no store.
C5_RefreshByOtherClientFails ==
    [][(/\ ret'.op = "exchangeRefreshToken"
        /\ ret'.token \in DOMAIN refreshTokens
        /\ refreshTokens[ret'.token].clientId # ret'.client) =>
           /\ ret'.status # "ok"
           /\ tokenCount' = tokenCount
           /\ stores' = stores]_vars

\* A client has just been refused another client's refresh token.
C5_Witness ==
    /\ ret.op = "exchangeRefreshToken"
    /\ ret.token \in DOMAIN refreshTokens
    /\ refreshTokens[ret.token].clientId # ret.client
    /\ ret.status = "Refresh token does not belong to this client"

\* C6 as stated: any exchangeRefreshToken call presenting a refresh token
\* created more than 2,592,000 seconds ago fails as expired, mints nothing and
\* leaves the token absent from the store.
C6_AnyCallerExpires ==
    [][(/\ ret'.op = "exchangeRefreshToken"
        /\ ret'.token \in DOMAIN refreshTokens
        /\ now.s - refreshTokens[ret'.token].createdAt > 2592000) =>
           /\ ret'.status = "Refresh token expired"
           /\ tokenCount' = tokenCount
           /\ ret'.token \notin DOMAIN refreshTokens']_vars

\* C6 amended: an exchangeRefreshToken call by the owning client presenting a
\* stored refresh token created more than 2,592,000 seconds ago fails as
\* expired, mints nothing and leaves the token absent from the store.
C6_OwnerCallExpires ==
    [][(/\ ret'.op = "exchangeRefreshToken"
        /\ ret'.token \in DOMAIN refreshTokens
        /\ refreshTokens[ret'.token].clientId = ret'.client
        /\ now.s - refreshTokens[ret'.token].createdAt > 2592000) =>
           /\ ret'.status = "Refresh token expired"
           /\ tokenCount' = tokenCount
           /\ tokens' = tokens
           /\ ret'.token \notin DOMAIN refreshTokens']_vars

\* The owner's exchange of an over-age refresh token has just failed.
C6_Witness ==
    /\ ret.op = "exchangeRefreshToken"
    /\ ret.status = "Refresh token expired"
    /\ ret.token \notin DOMAIN refreshTokens

\* C7: once its owner has revoked a token without a type hint, the token is
\* in neither store in any later state: verifyAccessToken fails on it,
\* getApiKeyForToken returns no value and exchangeRefreshToken fails.
C7_RevokedStaysRevoked ==
    [][/\ \A t \in revoked' :
              t \notin DOMAIN tokens' /\ t \notin DOMAIN refreshTokens'
       /\ (ret'.op = "verifyAccessToken" /\ ret'.token \in revoked) =>
              ret'.status # "ok"
       /\ (ret'.op = "getApiKeyForToken" /\ ret'.token \in revoked) =>
              ret'.value = Null
       /\ (ret'.op = "exchangeRefreshToken" /\ ret'.token \in revoked) =>
              ret'.status # "ok"]_vars

\* verifyAccessToken has just failed on a revoked access token.
C7_Witness ==
    /\ ret.op = "verifyAccessToken"
    /\ ret.token \in revoked
    /\ ret.status = "Invalid access token"

\* C8: whatever the token_type_hint, revokeToken by the owning client on a
\* stored access token or refresh token deletes that token.
C8_RevokeDeletesUnderAnyHint ==
    [][(/\ ret'.op = "revokeToken"
        /\ \/ /\ ret'.token \in DOMAIN tokens
              /\ tokens[ret'.token].clientId = ret'.client
           \/ /\ ret'.token \in DOMAIN refreshTokens
              /\ refreshTokens[ret'.token].clientId = ret'.client) =>
           /\ ret'.token \notin DOMAIN tokens'
           /\ ret'.token \notin DOMAIN refreshTokens']_vars

\* C9: revokeToken on a token value that is in neither token store or that
\* belongs to another client returns without an error and changes no store.
C9_RevokeOfForeignOrUnknownToken ==
    [][(/\ ret'.op = "revokeToken"
        /\ ~(/\ ret'.token \in DOMAIN tokens
             /\ tokens[ret'.token].clientId = ret'.client)
        /\ ~(/\ ret'.token \in DOMAIN refreshTokens
             /\ refreshTokens[ret'.token].clientId = ret'.client)) =>
           /\ ret'.status = "ok"
           /\ stores' = stores]_vars

\* A client has just tried to revoke another client's access token, which is
\* still stored.
C9_Witness ==
    /\ ret.op = "revokeToken"
    /\ ret.token \in DOMAIN tokens
    /\ tokens[ret.token].clientId # ret.client

\* C10: every stored authorization code, access token and refresh token
\* carries scopes exactly <<"mcp:tools">>.
C10_ScopesAlwaysMcpTools ==
    /\ \A c \in DOMAIN codes : codes[c].scopes = <<"mcp:tools">>
    /\ \A t \in DOMAIN tokens : tokens[t].scopes = <<"mcp:tools">>
    /\ \A t \in DOMAIN refreshTokens : refreshTokens[t].scopes = <<"mcp:tools">>

C12_RefreshTokenNotRotated ==
    [][/\ (ret'.op = "exchangeRefreshToken" /\ ret'.status = "ok") =>
              /\ refreshTokens' = refreshTokens
              /\ ret'.access_token \notin DOMAIN tokens
              /\ DOMAIN tokens' = (DOMAIN tokens) \cup {ret'.access_token}
              /\ \A t \in DOMAIN tokens : tokens'[t] = tokens[t]
       /\ (/\ ret'.op = "exchangeRefreshToken"
           /\ ret'.token \in DOMAIN refreshTokens
           /\ refreshTokens[ret'.token].clientId = ret'.client
           /\ now.s - refreshTokens[ret'.token].createdAt <= 2592000) =>
              ret'.status = "ok"]_vars

\* The same refresh token has just been exchanged a second time: two access
\* tokens minted after it descend from its authorization code.
C12_Witness ==
    /\ ret.op = "exchangeRefreshToken"
    /\ ret.status = "ok"
    /\ \E t \in DOMAIN origin :
           /\ t > ret.token
           /\ t < ret.access_token
           /\ origin[t] = origin[ret.token]

(***************************************************************************)
(* C13: every authorization code enters the store in a step of             *)
(* handleAuthorizeSubmit that generated that code (and then redirects      *)
(* with it, or throws building the redirect URL), for a pending            *)
(* submission whose API key and redirect URI are non-empty and whose key   *)
(* the validation accepted; the entry holds the                            *)
(* submitted key, PKCE challenge, redirect URI and state and expires 300   *)
(* seconds after the step; a stored entry is never altered afterwards,     *)
(* and authorize() leaves the code store as it is.                         *)
(***************************************************************************)
C13_CodesComeFromAcceptedSubmissions ==
    [][/\ \A c \in (DOMAIN codes') \ (DOMAIN codes) :
              /\ ret'.op = "handleAuthorizeSubmit"
              /\ ret'.sent \in {"redirect", "threw"}
              /\ ret'.code = c
              /\ \E i \in 1..Len(submits) : submits[i] = ret'.body
              /\ ret'.body.api_key \notin {"", Undefined, Null}
              /\ ret'.body.redirect_uri \notin {"", Undefined, Null}
              /\ ret'.validated /\ ret'.valid
              /\ ret'.response \in 200..299
              /\ codes'[c].twentyApiKey = ret'.body.api_key
              /\ codes'[c].codeChallenge = ret'.body.code_challenge
              /\ codes'[c].redirectUri = ret'.body.redirect_uri
              /\ codes'[c].state = ret'.body.state
              /\ codes'[c].expiresAt = [s |-> now.s + 300, ms |-> now.ms]
       /\ \A c \in (DOMAIN codes') \cap (DOMAIN codes) : codes'[c] = codes[c]
       /\ ret'.op = "authorize" => codes' = codes]_vars

C13_Witness ==
    /\ ret.op = "handleAuthorizeSubmit"
    /\ ret.sent = "redirect"
    /\ ret.code = 2
    /\ codes[2].twentyApiKey = "key-B"
    /\ 1 \in DOMAIN codes

(***************************************************************************)
(* C14: a submission whose api_key or redirect_uri is missing or empty,    *)
(* or whose key the validation rejects, is answered with status 400 and    *)
(* the form generated again with the error message in it, is not           *)
(* redirected, and leaves the four stores as they were.                    *)
(***************************************************************************)
C14_RejectedSubmission ==
    [][LET body == ret'.body
           missing == \/ body.api_key \in {"", Undefined, Null}
                      \/ body.redirect_uri \in {"", Undefined, Null}
           rejected == ret'.validated /\ ~ret'.valid
           blank(v) == IF v \in {"", Undefined, Null} THEN "" ELSE v
       IN (ret'.op = "handleAuthorizeSubmit" /\ (missing \/ rejected)) =>
              /\ ret'.status = 400
              /\ ret'.sent = "page"
              /\ ret'.pageOptions =
                     [clientName |-> "Unknown",
                      scopes |-> << >>,
                      state |-> blank(body.state),
                      redirectUri |-> blank(body.redirect_uri),
                      codeChallenge |-> blank(body.code_challenge),
                      error |-> IF missing THEN "API key is required"
                                ELSE "Invalid API key. Please check your Twenty CRM API key and try again."]
              /\ clients' = clients
              /\ codes' = codes
              /\ tokens' = tokens
              /\ refreshTokens' = refreshTokens]_vars

C14_Witness ==
    /\ ret.op = "handleAuthorizeSubmit"
    /\ ret.validated
    /\ ret.response = 401
    /\ ret.status = 400
    /\ ret.pageOptions.state = "st"
    /\ DOMAIN codes = {}

(***************************************************************************)
(* C18: the validation answers valid exactly when the CRM answered with    *)
(* status 200; every other status and a network failure give invalid.      *)
(***************************************************************************)
C18_ValidExactlyOn200 ==
    (ret.op = "handleAuthorizeSubmit" /\ ret.validated) =>
        (ret.valid <=> ret.response = 200)

(***************************************************************************)
(* C15: presented with a stored code whose expiry has passed,              *)
(* challengeForAuthorizationCode and exchangeAuthorizationCode fail with   *)
(* "Authorization code expired", delete that code and mint no token;       *)
(* presented with a stored code not past its expiry,                       *)
(* challengeForAuthorizationCode returns the stored PKCE challenge and     *)
(* leaves the code store alone; presented with an unknown code, both fail  *)
(* with "Invalid authorization code" and change no store.                  *)
(***************************************************************************)
C15_ExpiredAndUnknownCodes ==
    [][LET c == ret'.code
           known == c \in DOMAIN codes
           expired == \/ now.s > codes[c].expiresAt.s
                      \/ /\ now.s = codes[c].expiresAt.s
                         /\ now.ms > codes[c].expiresAt.ms
       IN (ret'.op \in {"challengeForAuthorizationCode",
                        "exchangeAuthorizationCode"}) =>
              IF ~known
              THEN /\ ret'.status = "Invalid authorization code"
                   /\ codes' = codes
                   /\ tokens' = tokens
                   /\ refreshTokens' = refreshTokens
              ELSE IF expired
              THEN /\ ret'.status = "Authorization code expired"
                   /\ DOMAIN codes' = (DOMAIN codes) \ {c}
                   /\ \A d \in DOMAIN codes' : codes'[d] = codes[d]
                   /\ tokens' = tokens
                   /\ refreshTokens' = refreshTokens
              ELSE ret'.op = "challengeForAuthorizationCode" =>
                   /\ ret'.status = "ok"
                   /\ ret'.value = codes[c].codeChallenge
                   /\ codes' = codes
                   /\ tokens' = tokens
                   /\ refreshTokens' = refreshTokens]_vars

C15_Witness ==
    /\ ret.op = "exchangeAuthorizationCode"
    /\ ret.status = "Authorization code expired"
    /\ codeCount = 1
    /\ ret.code \notin DOMAIN codes
    /\ tokenCount = 0

(***************************************************************************)
(* C16: in the state cleanup() returns in, no stored authorization code    *)
(* is past its expiry, no stored access token is past its expiry and no    *)
(* stored refresh token is older than 2,592,000 seconds.                   *)
(***************************************************************************)
C16_NothingExpiredAfterCleanup ==
    ret.op = "cleanup" =>
        /\ \A c \in DOMAIN codes :
               \/ now.s < codes[c].expiresAt.s
               \/ /\ now.s = codes[c].expiresAt.s
                  /\ now.ms <= codes[c].expiresAt.ms
        /\ \A t \in DOMAIN tokens : now.s <= tokens[t].expiresAt
        /\ \A t \in DOMAIN refreshTokens :
               now.s - refreshTokens[t].createdAt <= 2592000

C16_Witness ==
    /\ ret.op = "cleanup"
    /\ ret.deleted.tokens = 1
    /\ ret.deleted.refreshTokens = 0
    /\ DOMAIN refreshTokens # {}

(***************************************************************************)
(* C17: no step removes or alters a registered client; registerClient      *)
(* stores the record it returns under an id no client was stored under     *)
(* before; getClient returns the stored record of a registered id and      *)
(* nothing for any other id.                                               *)
(***************************************************************************)
C17_ClientsAreKept ==
    [][/\ \A id \in DOMAIN clients :
              id \in DOMAIN clients' /\ clients'[id] = clients[id]
       /\ ret'.op = "registerClient" =>
              /\ ret'.client.client_id \notin DOMAIN clients
              /\ DOMAIN clients' = (DOMAIN clients) \cup {ret'.client.client_id}
              /\ clients'[ret'.client.client_id] = ret'.client
       /\ ret'.op = "getClient" =>
              IF ret'.clientId \in DOMAIN clients
              THEN ret'.found /\ ret'.client = clients[ret'.clientId]
              ELSE ~ret'.found]_vars

C17_Witness ==
    /\ ret.op = "getClient"
    /\ ret.found
    /\ ret.client.client_id = 1
    /\ DOMAIN clients = {1, 2}
    /\ revoked # {}
    /\ ticks > 0

(***************************************************************************)
(* C19: what escapeHtml returns holds none of the characters < > " ' and   *)
(* holds & only as the first character of &amp; &lt; &gt; &quot; or &#39;, *)
(* and it reads back, entity by entity, as the text given; every           *)
(* interpolated part of the generated page is such an escaped text, and    *)
(* the parts are, in order, the client name (or "Unknown Application"),    *)
(* each scope, the error message when there is one, the state, the         *)
(* redirect URI and the code challenge.                                    *)
(***************************************************************************)
C19_PageTextIsEscaped ==
    LET Entities == {<<"&", "a", "m", "p", ";">>, <<"&", "l", "t", ";">>,
                     <<"&", "g", "t", ";">>, <<"&", "q", "u", "o", "t", ";">>,
                     <<"&", "#", "3", "9", ";">>}
        EntityAt(e, i) ==
            {ent \in Entities : /\ i + Len(ent) - 1 <= Len(e)
                                /\ SubSeq(e, i, i + Len(ent) - 1) = ent}
        Safe(e) ==
            \A i \in 1..Len(e) :
                /\ e[i] \notin {"<", ">", "\"", "'"}
                /\ e[i] = "&" => EntityAt(e, i) # {}
        Meaning(ent) ==
            CASE ent = <<"&", "a", "m", "p", ";">> -> "&"
              [] ent = <<"&", "l", "t", ";">> -> "<"
              [] ent = <<"&", "g", "t", ";">> -> ">"
              [] ent = <<"&", "q", "u", "o", "t", ";">> -> "\""
              [] ent = <<"&", "#", "3", "9", ";">> -> "'"
        RECURSIVE Read(_)
        Read(e) ==
            IF e = << >> THEN << >>
            ELSE IF e[1] = "&"
                 THEN LET ent == CHOOSE x \in EntityAt(e, 1) : TRUE
                      IN <<Meaning(ent)>> \o Read(SubSeq(e, Len(ent) + 1, Len(e)))
                 ELSE <<e[1]>> \o Read(Tail(e))
        Given(v) == IF v = << >> \/ v = <<"undefined">> THEN << >> ELSE v
        html == output.value
        Parts == {i \in 1..Len(html) : html[i].markup = ""}
        Nth(k) == CHOOSE i \in Parts : Cardinality({j \in Parts : j < i}) = k - 1
        Expected ==
            <<IF Given(options.clientName) = << >>
              THEN <<"U", "n", "k", "n", "o", "w", "n", " ",
                     "A", "p", "p", "l", "i", "c", "a", "t", "i", "o", "n">>
              ELSE options.clientName>>
            \o (IF options.scopesGiven THEN options.scopes ELSE << >>)
            \o (IF Given(options.error) = << >> THEN << >>
                ELSE <<options.error>>)
            \o <<Given(options.state), Given(options.redirectUri),
                 Given(options.codeChallenge)>>
    IN /\ output.kind = "escapeHtml" =>
              /\ Safe(output.value)
              /\ Read(output.value) = text
       /\ output.kind = "generateAuthorizePage" =>
              /\ Cardinality(Parts) = Len(Expected)
              /\ \A k \in 1..Len(Expected) :
                     /\ Safe(html[Nth(k)].chars)
                     /\ Read(html[Nth(k)].chars) = Expected[k]

C19_Witness ==
    /\ output.kind = "generateAuthorizePage"
    /\ text = <<"<", "'">>
    /\ options.error = text
    /\ options.clientName = text
    /\ options.scopesGiven
    /\ options.scopes = <<text, <<"'", "<">>>>

(***************************************************************************)
(* C20: started with REMOTE_MCP_URL or TWENTY_API_KEY unset or empty, the  *)
(* proxy writes one error line naming the missing variable and exits with  *)
(* code 1 in its first step: no client.connect is ever called, no remote   *)
(* client is held, no tool list is asked for and the local stdio server    *)
(* is never connected.                                                     *)
(***************************************************************************)
C20_MissingConfigurationIsFatal ==
    LET noUrl == env.REMOTE_MCP_URL \in {"", Undefined}
        noKey == env.TWENTY_API_KEY \in {"", Undefined}
    IN ((noUrl \/ noKey) /\ pc # "start") =>
           /\ pc = "exited"
           /\ exitCode = 1
           /\ log = <<[level |-> "ERROR",
                       msg |-> IF noUrl
                               THEN "Missing REMOTE_MCP_URL environment variable"
                               ELSE "Missing TWENTY_API_KEY environment variable",
                       detail |-> ""]>>
           /\ connectAttempts = 0
           /\ remoteClient = 0
           /\ discoveries = 0
           /\ ~stdioConnected
           /\ requests = 0
           /\ forwarded = << >>

C20_Witness ==
    /\ env.REMOTE_MCP_URL = "https://remote/mcp"
    /\ env.TWENTY_API_KEY = ""
    /\ pc = "exited"
    /\ exitCode = 1
    /\ Len(log) = 1

(***************************************************************************)
(* C21: client.listTools is called at most once; the list it gave is what  *)
(* remoteTools holds from then on, whatever is forwarded and however the   *)
(* remote server's list changes; and every answer to a local tool-list     *)
(* request is that list.                                                   *)
(***************************************************************************)
C21_ToolListIsTheStartupList ==
    [][/\ discoveries' <= 1
       /\ (pc = "listTools" /\ pc' = "stdio") =>
              remoteTools' = IF remoteCatalog.hasTools
                             THEN remoteCatalog.tools ELSE << >>
       /\ pc \in {"stdio", "serving"} => remoteTools' = remoteTools
       /\ (requests' = requests + 1 /\ pending' = pending) =>
              /\ answer'.op = "tools/list"
              /\ answer'.tools = remoteTools
              /\ discoveries' = discoveries
              /\ forwarded' = forwarded]_vars

C21_Witness ==
    /\ answer.op = "tools/list"
    /\ answer.tools = <<"create_person">>
    /\ remoteCatalog.tools = <<"create_person", "update_person">>
    /\ Len(forwarded) = 2
    /\ discoveries = 1

(***************************************************************************)
(* C22: a local tool invocation is sent to the remote server in the step   *)
(* that receives it, with the tool name of the request and its arguments   *)
(* (the empty object when the request has none); when the remote call      *)
(* fails, the handler answers with isError true and the text "Error: "     *)
(* followed by the error's message, the process neither exits nor leaves   *)
(* the serving position, and the other pending invocations stay pending.   *)
(***************************************************************************)
C22_ForwardAndReportFailure ==
    [][/\ (requests' = requests + 1 /\ Len(pending') = Len(pending) + 1) =>
              LET call == pending'[Len(pending')]
              IN /\ Len(forwarded') = Len(forwarded) + 1
                 /\ forwarded'[Len(forwarded')].name = call.request.name
                 /\ forwarded'[Len(forwarded')].arguments =
                        IF call.request.args.given
                        THEN call.request.args.value ELSE "{}"
                 /\ \A k \in 1..Len(forwarded) : forwarded'[k] = forwarded[k]
       /\ (Len(pending') = Len(pending) - 1) =>
              /\ answer'.op = "tools/call"
              /\ pc' = "serving"
              /\ exitCode' = -1
              /\ answer'.isError =>
                     /\ answer'.text = "Error: "
                     /\ answer'.value \in {"Request timed out", "closed"}
                     /\ Len(log') = Len(log) + 1
                     /\ log'[Len(log')].level = "ERROR"
                     /\ log'[Len(log')].detail = answer'.value
              /\ ~answer'.isError => answer'.value = "created"]_vars

C22_Witness ==
    /\ answer.op = "tools/call"
    /\ ~answer.isError
    /\ \E k \in 1..Len(log) : log[k].msg = "Tool call failed"
    /\ Len(forwarded) = 3
    /\ forwarded[3].arguments = "{firstName: Ada}"
    /\ pc = "serving"

(***************************************************************************)
(* C28: client.connect is called at most once, and that before the local   *)
(* stdio server is connected; every call sent to the remote server, also   *)
(* while another one is pending, goes over that one client; when the       *)
(* startup connection or the discovery fails the process exits with code   *)
(* 1 and no local request is ever received.                                *)
(***************************************************************************)
C28_OneRemoteConnection ==
    /\ connectAttempts <= 1
    /\ remoteClient \in {0, 1}
    /\ (stdioConnected \/ pc \in {"listTools", "stdio", "serving"}) =>
           (connectAttempts = 1 /\ remoteClient = 1)
    /\ \A k \in 1..Len(forwarded) : forwarded[k].client = 1
    /\ \A k \in 1..Len(pending) : pending[k].at = "callTool"
    /\ requests > 0 => (stdioConnected /\ discoveries = 1)
    /\ pc = "exited" =>
           /\ exitCode = 1
           /\ requests = 0
           /\ forwarded = << >>
           /\ answer = [op |-> "none"]

C28_Witness ==
    /\ Len(pending) = 2
    /\ Len(forwarded) = 3
    /\ connectAttempts = 1
    /\ pc = "serving"

(***************************************************************************)
(* C23: for each of the four normalization functions and each input (a     *)
(* string, an array, an object in another shape, an object in the          *)
(* structured shape), the function applied to its own result gives that    *)
(* result again; and an input that has the primary key of the structured   *)
(* shape of its type comes back as it was given.                           *)
(***************************************************************************)
C23_NormalizationIsIdempotent ==
    LET primary == CASE fieldType = "EMAILS" -> "primaryEmail"
                     [] fieldType = "PHONES" -> "primaryPhoneNumber"
                     [] fieldType = "ADDRESS" -> "addressStreet1"
                     [] fieldType = "LINKS" -> "primaryLinkUrl"
    IN /\ applied = 2 => renormalized = normalized
       /\ (applied >= 1 /\ value.kind = "object"
               /\ primary \in DOMAIN value.fields) => normalized = value
       /\ (applied >= 1 /\ value.kind \in {"string", "array"}) =>
              /\ normalized.kind = "object"
              /\ primary \in DOMAIN normalized.fields

C23_Witness ==
    /\ applied = 2
    /\ fieldType = "ADDRESS"
    /\ value.kind = "object"
    /\ DOMAIN value.fields = {"addressLine1", "zip"}
    /\ renormalized.fields["addressPostcode"].s = "zip"

(***************************************************************************)
(* C24: normalizeAddressValue gives, for an object in the standard shape   *)
(* or in the alternate shape, an object of exactly the eight address keys  *)
(* in which each key the input has is found under its counterpart, each    *)
(* text key the input lacks is the empty string, and addressLat and        *)
(* addressLng are null unless the input has them; for a string it gives    *)
(* the string as addressStreet1, the other text keys empty and the two     *)
(* coordinates null.                                                       *)
(***************************************************************************)
C24_AddressMapping ==
    LET given == value.fields
        out == normalized.fields
        Empty == [kind |-> "string", s |-> "", items |-> << >>,
                  fields |-> [k \in {} |-> 0]]
        Null_ == [kind |-> "null", s |-> "", items |-> << >>,
                  fields |-> [k \in {} |-> 0]]
        Carried(from, to, default) ==
            out[to] = IF from \in DOMAIN given THEN given[from] ELSE default
        standard == DOMAIN given \subseteq {"street1", "street2", "city", "state",
                                         "postalCode", "country", "addressLat",
                                         "addressLng"}
        alternate == DOMAIN given \subseteq {"addressLine1", "addressLine2", "city",
                                          "state", "zip", "country",
                                          "addressLat", "addressLng"}
    IN (fieldType = "ADDRESS" /\ applied >= 1) =>
           /\ (value.kind = "object" /\ (standard \/ alternate)) =>
                  /\ normalized.kind = "object"
                  /\ DOMAIN out = {"addressStreet1", "addressStreet2",
                                   "addressCity", "addressState",
                                   "addressPostcode", "addressCountry",
                                   "addressLat", "addressLng"}
                  /\ Carried("city", "addressCity", Empty)
                  /\ Carried("state", "addressState", Empty)
                  /\ Carried("country", "addressCountry", Empty)
                  /\ Carried("addressLat", "addressLat", Null_)
                  /\ Carried("addressLng", "addressLng", Null_)
                  /\ standard => /\ Carried("street1", "addressStreet1", Empty)
                                 /\ Carried("street2", "addressStreet2", Empty)
                                 /\ Carried("postalCode", "addressPostcode", Empty)
                  /\ alternate => /\ Carried("addressLine1", "addressStreet1", Empty)
                                  /\ Carried("addressLine2", "addressStreet2", Empty)
                                  /\ Carried("zip", "addressPostcode", Empty)
           /\ value.kind = "string" =>
                  /\ normalized.kind = "object"
                  /\ out = [k \in {"addressStreet1", "addressStreet2",
                                   "addressCity", "addressState",
                                   "addressPostcode", "addressCountry",
                                   "addressLat", "addressLng"} |->
                               IF k = "addressStreet1" THEN value
                               ELSE IF k \in {"addressLat", "addressLng"}
                               THEN Null_ ELSE Empty]

C24_Witness ==
    /\ fieldType = "ADDRESS"
    /\ applied = 1
    /\ value.kind = "object"
    /\ DOMAIN value.fields = {"addressLine1", "addressLine2", "city", "state",
                              "zip", "country"}
    /\ normalized.fields["addressPostcode"].s = "zip"
    /\ normalized.fields["addressLat"].kind = "null"

(***************************************************************************)
(* C25: when the arguments of a create_person or update_person call have   *)
(* a value for emails, the payload sent to the CRM has no emails key and   *)
(* has under eMails that value in the structured EMAILS shape, with the    *)
(* address given first as primaryEmail; the copy is made on the payload    *)
(* already normalized and already aliased, and what is sent is the         *)
(* payload the copy produced.                                              *)
(***************************************************************************)
C25_EmailsSentAsEMails ==
    LET given == callArgs["emails"]
        primary == IF given.kind = "string" THEN given
                   ELSE IF given.kind = "array" THEN given.items[1]
                   ELSE given.fields["primaryEmail"]
    IN ("emails" \in DOMAIN callArgs /\ stage \in {"rewritten", "transmitted"}) =>
           /\ "emails" \notin DOMAIN payload
           /\ "eMails" \in DOMAIN payload
           /\ payload["eMails"].kind = "object"
           /\ DOMAIN payload["eMails"].fields = {"primaryEmail", "additionalEmails"}
           /\ payload["eMails"].fields["primaryEmail"] = primary
           /\ "companyId" \notin DOMAIN payload
           /\ "companyId" \in DOMAIN callArgs => "company" \in DOMAIN payload
           /\ stage = "transmitted" => transmitted = <<payload>>

C25_Witness ==
    /\ stage = "transmitted"
    /\ tool = "update_person"
    /\ DOMAIN callArgs = {"emails", "eMails", "companyId"}
    /\ callArgs["emails"].kind = "array"
    /\ transmitted[1]["eMails"].fields["additionalEmails"].kind = "array"

(***************************************************************************)
(* C27: cleanup() keeps, as they are, every authorization code not past    *)
(* its expiry, every access token not past its expiry, every refresh       *)
(* token not older than 2,592,000 seconds and every registered client.     *)
(***************************************************************************)
C27_CleanupKeepsTheUnexpired ==
    [][ret'.op = "cleanup" =>
           /\ \A c \in DOMAIN codes :
                  (\/ now.s < codes[c].expiresAt.s
                   \/ /\ now.s = codes[c].expiresAt.s
                      /\ now.ms <= codes[c].expiresAt.ms) =>
                      (c \in DOMAIN codes' /\ codes'[c] = codes[c])
           /\ \A t \in DOMAIN tokens :
                  now.s <= tokens[t].expiresAt =>
                      (t \in DOMAIN tokens' /\ tokens'[t] = tokens[t])
           /\ \A t \in DOMAIN refreshTokens :
                  now.s - refreshTokens[t].createdAt <= 2592000 =>
                      (t \in DOMAIN refreshTokens'
                          /\ refreshTokens'[t] = refreshTokens[t])
           /\ clients' = clients]_vars

C27_Witness ==
    /\ ret.op = "cleanup"
    /\ ret.deleted.tokens = 0
    /\ \E t \in DOMAIN tokens : tokens[t].expiresAt = now.s
    /\ DOMAIN clients # {}
    /\ DOMAIN refreshTokens # {}

(***************************************************************************)
(* C26: when a handleAuthorizeSubmit call resumes after the validation,    *)
(* whatever other calls are suspended or have run in between, it answers   *)
(* for its own submission; when it succeeds it stores one code that was    *)
(* not in the store, bound to the API key, PKCE challenge, redirect URI    *)
(* and state of that submission, redirects to that submission's            *)
(* redirect URI with that code, and alters no other code; when it fails    *)
(* it leaves the code store as it was.                                     *)
(***************************************************************************)
C26_SubmissionsDoNotMix ==
    [][(ret'.op = "handleAuthorizeSubmit" /\ ret'.validated) =>
           LET body == ret'.body
           IN /\ \E i \in 1..Len(submits) :
                     /\ submits[i] = body
                     /\ submits' = [j \in 1..(Len(submits) - 1) |->
                                       IF j < i THEN submits[j]
                                       ELSE submits[j + 1]]
              /\ IF ret'.status = 302
                 THEN /\ ret'.code \notin DOMAIN codes
                      /\ DOMAIN codes' = (DOMAIN codes) \cup {ret'.code}
                      /\ \A c \in DOMAIN codes : codes'[c] = codes[c]
                      /\ codes'[ret'.code].twentyApiKey = body.api_key
                      /\ codes'[ret'.code].codeChallenge = body.code_challenge
                      /\ codes'[ret'.code].redirectUri = body.redirect_uri
                      /\ codes'[ret'.code].state = body.state
                      /\ ret'.location.code = ret'.code
                      /\ ret'.location.url = body.redirect_uri
                 ELSE codes' = codes]_vars
====
